---- MODULE Spec2Model ----
(***************************************************************************)
(* meteoserver: a TCP server that answers "get <message> <delay>" with the *)
(* MD5 digest of <message>, with an LRU cache, a request queue served by   *)
(* a pool of worker threads, and signal-driven reset and shutdown.         *)
(*                                                                         *)
(* The model follows the C sources: lruCache.c, requestQueue.c,            *)
(* requestMonitor.c, signalHandler.c and main/main.c.                      *)
(***************************************************************************)
EXTENDS Integers, Sequences, FiniteSets, TLC

(* ------------------------------ bounds --------------------------------- *)

\* Largest cache capacity (-C) the model starts with.
MaxCapacity == 3
\* Largest thread pool (-t) the model starts with.
MaxThreads == 3
\* Connections the supervisor accepts in one run of the server.
MaxConn == 2
\* SIGUSR1 deliveries in one run of the server.
MaxUsr1 == 1
\* SIGTERM / SIGINT deliveries in one run of the server.
MaxTerm == 1

\* Threads plus different messages in a run of the cache alone.
MaxLoad == 5

\* Largest delay field of the request lines given to tokenize_request.
MaxDelay == 12

\* Messages the clients ask for.
MsgList == <<"a", "b", "c">>
Msgs == {MsgList[i] : i \in 1 .. Len(MsgList)}
FirstMsgs(n) == {MsgList[i] : i \in 1 .. (IF n < Len(MsgList) THEN n ELSE Len(MsgList))}

(* -------------------------- program constants -------------------------- *)

SERVER_ENABLED == 1
SERVER_SIGUSR1 == 2
SERVER_SIGTERM == 4
SOCKETERR == -1
BYE == "Bye!\n"
SEND_TIMEOUT == "Timeout.\n"
SEND_LONG_REQUEST == "Request is too long.\n"
SEND_INVALID_REQUEST == "Request is not valid.\n"
ERROR == 1
SUCCESS == 0
REQUEST_FIELDS == 3
\* The null pointer; pool slots are numbered from 0 as in the C arrays.
NULL == -1
\* A char* that is NULL (request, md5 of a free slot; request.msg when unset).
NullStr == "NULL"

(* ------------------------------- state --------------------------------- *)

VARIABLES
    env,            \* what the run is given: clients' messages, connections, signals
    settings,       \* arguments_t: cacheSize, threadNumber
    serverHandler,  \* the global flag word, as the set of bits that are set
    sig,            \* the signal handler: where it is, signals delivered
    sup,            \* the main thread: start_server / empty_cache / teardown_server
    queue,          \* linked_queue_t: first, last, elements, nodes, condMutex, waiters
    queueMutex,     \* serverState_t.queueMutex: 0 free, else the worker holding it
    conns,          \* the accepted sockets, by descriptor
    wk,             \* the worker threads: request_monitor's locals and position
    lruCache,       \* serverState_t.lruCache: the cache object it points to, or NULL
    cache,          \* the lruCache_t object last allocated
    ghost,          \* history: pushes, pops, recency of use, released memory touched
    req,            \* tokenize_request: the buffer it is given and what it returns
    md              \* md5String: the input it is given, the digest and the string

vars == <<env, settings, serverHandler, sig, sup, queue, queueMutex, conns, wk,
          lruCache, cache, ghost, req, md>>

Workers == 1 .. settings.threadNumber
Fds == 1 .. MaxConn
QNodes == 1 .. MaxConn

Min(S) == CHOOSE x \in S : \A y \in S : x <= y

SeqRemove(s, x) == SelectSeq(s, LAMBDA y : y # x)

(* ----------------------------- lruCache.c ------------------------------ *)

\* A node as calloc leaves it.
EmptyNode == [request |-> NullStr, md5 |-> NullStr, next |-> NULL, prev |-> NULL]

\* lru_find_element: the first of the first currentCapacity pool slots whose
\* request is the one asked for, or NULL.
lru_find_element(cachePool, request, currentCapacity) ==
    LET hits == {i \in 0 .. currentCapacity - 1 :
                    /\ cachePool[i].request # NullStr
                    /\ request # NullStr
                    /\ cachePool[i].request = request}
    IN IF hits = {} THEN NULL ELSE Min(hits)

\* lru_cache_init: the pool is allocated whole, slot 0 is the self-linked head,
\* the mutex is free (0; else the thread that holds it).
lru_cache_init(id, capacity) ==
    [id |-> id,
     alloc |-> TRUE,
     mutex |-> 0,
     head |-> 0,
     cachePool |-> [i \in 0 .. capacity - 1 |->
                       IF i = 0 THEN [EmptyNode EXCEPT !.next = 0, !.prev = 0]
                       ELSE EmptyNode],
     currentCapacity |-> 0,
     totalCapacity |-> capacity]

\* lru_cache_free: every node and the pool are released, both capacities are
\* set to 0; head is left pointing at a released node.
lru_cache_free(c) ==
    [c EXCEPT !.cachePool = <<>>, !.totalCapacity = 0, !.currentCapacity = 0]

\* lru_cache_get_element that finds the node and leaves the ring as it is.
GetWithoutRelink(c, request) ==
    [cache |-> c, node |-> lru_find_element(c.cachePool, request, c.currentCapacity)]

\* The critical section of lru_cache_get_element: find the node and, unless it
\* is the head already, unlink it and link it in front of the head.
\* The assignments are applied one after the other, as in the C code.
lru_cache_get_element(c, request) ==
    LET tmpNode == lru_find_element(c.cachePool, request, c.currentCapacity)
    IN IF tmpNode # NULL /\ tmpNode # c.head
       THEN LET p0 == c.cachePool
                p1 == [p0 EXCEPT ![p0[tmpNode].prev].next = p0[tmpNode].next]
                p2 == [p1 EXCEPT ![p1[tmpNode].next].prev = p1[tmpNode].prev]
                p3 == [p2 EXCEPT ![tmpNode].next = c.head]
                p4 == [p3 EXCEPT ![tmpNode].prev = p3[c.head].prev]
                p5 == [p4 EXCEPT ![p4[tmpNode].prev].next = tmpNode]
                p6 == [p5 EXCEPT ![p5[tmpNode].next].prev = tmpNode]
            IN [cache |-> [c EXCEPT !.cachePool = p6, !.head = tmpNode],
                node |-> tmpNode]
       ELSE [cache |-> c, node |-> tmpNode]

\* UpdateFree that leaves the prev of the old head as it was.
UpdateFreeOneWay(c, request, value) ==
    LET tmpNode == c.currentCapacity
        p0 == c.cachePool
        p1 == [p0 EXCEPT ![tmpNode].request = request, ![tmpNode].md5 = value]
        p2 == [p1 EXCEPT ![tmpNode].next = c.head]
        p3 == [p2 EXCEPT ![tmpNode].prev = p2[c.head].prev]
        p4 == [p3 EXCEPT ![p3[tmpNode].prev].next = tmpNode]
    IN [cache |-> [c EXCEPT !.cachePool = p4,
                            !.currentCapacity = c.currentCapacity + 1,
                            !.head = tmpNode],
        node |-> tmpNode, freed |-> FALSE]

\* The branch of lru_cache_update_node taken while the cache is not full:
\* the next pool slot is filled and linked in front of the head.
UpdateFree(c, request, value) ==
    LET tmpNode == c.currentCapacity
        p0 == c.cachePool
        p1 == [p0 EXCEPT ![tmpNode].request = request, ![tmpNode].md5 = value]
        p2 == [p1 EXCEPT ![tmpNode].next = c.head]
        p3 == [p2 EXCEPT ![tmpNode].prev = p2[c.head].prev]
        p4 == [p3 EXCEPT ![p3[tmpNode].prev].next = tmpNode]
        p5 == [p4 EXCEPT ![p4[tmpNode].next].prev = tmpNode]
    IN [cache |-> [c EXCEPT !.cachePool = p5,
                            !.currentCapacity = c.currentCapacity + 1,
                            !.head = tmpNode],
        node |-> tmpNode, freed |-> FALSE]

\* UpdateFull with the counter of used slots incremented as in UpdateFree.
UpdateFullGrows(c, request, value) ==
    LET tmpNode == c.cachePool[c.head].prev
        p0 == c.cachePool
        p1 == [p0 EXCEPT ![tmpNode].request = request, ![tmpNode].md5 = value]
    IN [cache |-> [c EXCEPT !.cachePool = p1, !.head = tmpNode,
                            !.currentCapacity = c.currentCapacity + 1],
        node |-> tmpNode, freed |-> TRUE]

\* UpdateFull that overwrites the head itself.
UpdateFullAtHead(c, request, value) ==
    LET tmpNode == c.head
        p0 == c.cachePool
        p1 == [p0 EXCEPT ![tmpNode].request = request, ![tmpNode].md5 = value]
    IN [cache |-> [c EXCEPT !.cachePool = p1, !.head = tmpNode],
        node |-> tmpNode, freed |-> TRUE]

\* The branch taken when the cache is full: the node before the head is
\* overwritten, its old strings are released, and it becomes the head.
UpdateFull(c, request, value) ==
    LET tmpNode == c.cachePool[c.head].prev
        p0 == c.cachePool
        p1 == [p0 EXCEPT ![tmpNode].request = request, ![tmpNode].md5 = value]
    IN [cache |-> [c EXCEPT !.cachePool = p1, !.head = tmpNode],
        node |-> tmpNode, freed |-> TRUE]

\* The critical section of lru_cache_update_node.
lru_cache_update_node(c, request, value) ==
    IF c.currentCapacity < c.totalCapacity
    THEN UpdateFree(c, request, value)
    ELSE UpdateFull(c, request, value)

(* ------------------------------ crypto.c ------------------------------- *)

\* A uint32_t is kept as its two 16-bit halves, so that no intermediate value
\* leaves the range of the model's integers: Word(hi, lo) is hi * 2^16 + lo.
Half == 2 ^ 16
Word(hi, lo) == [hi |-> hi, lo |-> lo]

\* The initial values of the four words of the state.
A == Word(26437, 8961)      \* 0x67452301
B == Word(61389, 43913)     \* 0xefcdab89
C == Word(39098, 56574)     \* 0x98badcfe
D == Word(4146, 21622)      \* 0x10325476

\* static char hex[] = "0123456789abcdef", indexed from 0 as hex[n + 1].
hex == <<"0", "1", "2", "3", "4", "5", "6", "7", "8", "9", "a", "b", "c", "d", "e", "f">>

\* The shift of each of the 64 rounds, S[i] of the C array being S[i + 1].
S ==
    <<7, 12, 17, 22,  7, 12, 17, 22,  7, 12, 17, 22,  7, 12, 17, 22,
      5,  9, 14, 20,  5,  9, 14, 20,  5,  9, 14, 20,  5,  9, 14, 20,
      4, 11, 16, 23,  4, 11, 16, 23,  4, 11, 16, 23,  4, 11, 16, 23,
      6, 10, 15, 21,  6, 10, 15, 21,  6, 10, 15, 21,  6, 10, 15, 21>>

\* The constant of each round, K[i] of the C array being K[i + 1]; each line
\* holds four of them in the order of the source.
K ==
    <<Word(55146, 42104), Word(59591, 46934), Word(9248, 28891), Word(49597, 52974),
      Word(62844, 4015), Word(18311, 50730), Word(43056, 17939), Word(64838, 38145),
      Word(27008, 39128), Word(35652, 63407), Word(65535, 23473), Word(35164, 55230),
      Word(27536, 4386), Word(64920, 29075), Word(42617, 17294), Word(18868, 2081),
      Word(63006, 9570), Word(49216, 45888), Word(9822, 23121), Word(59830, 51114),
      Word(54831, 4189), Word(580, 5203), Word(55457, 59009), Word(59347, 64456),
      Word(8673, 52710), Word(49975, 2006), Word(62677, 3463), Word(17754, 5357),
      Word(43491, 59653), Word(64751, 41976), Word(26479, 729), Word(36138, 19594),
      Word(65530, 14658), Word(34673, 63105), Word(28061, 24866), Word(64997, 14348),
      Word(42174, 59972), Word(19422, 53161), Word(63163, 19296), Word(48831, 48240),
      Word(10395, 32454), Word(60065, 10234), Word(54511, 12421), Word(1160, 7429),
      Word(55764, 53305), Word(59099, 39397), Word(8098, 31992), Word(50348, 22117),
      Word(62505, 8772), Word(17194, 65431), Word(43924, 9127), Word(64659, 41017),
      Word(25947, 22979), Word(36620, 52370), Word(65519, 62589), Word(34180, 24017),
      Word(28584, 32335), Word(65068, 59104), Word(41729, 17172), Word(19976, 4513),
      Word(63315, 32386), Word(48442, 62005), Word(10967, 53947), Word(60294, 54161)>>

\* The bitwise operators of C on n-bit values.
RECURSIVE BitAnd(_, _, _)
BitAnd(x, y, n) ==
    IF n = 0 THEN 0
    ELSE (IF x % 2 = 1 /\ y % 2 = 1 THEN 1 ELSE 0) + 2 * BitAnd(x \div 2, y \div 2, n - 1)

RECURSIVE BitOr(_, _, _)
BitOr(x, y, n) ==
    IF n = 0 THEN 0
    ELSE (IF x % 2 = 1 \/ y % 2 = 1 THEN 1 ELSE 0) + 2 * BitOr(x \div 2, y \div 2, n - 1)

RECURSIVE BitXor(_, _, _)
BitXor(x, y, n) ==
    IF n = 0 THEN 0
    ELSE (IF x % 2 # y % 2 THEN 1 ELSE 0) + 2 * BitXor(x \div 2, y \div 2, n - 1)

\* x & y, x | y, x ^ y and ~x on uint32_t.
And32(x, y) == Word(BitAnd(x.hi, y.hi, 16), BitAnd(x.lo, y.lo, 16))
Or32(x, y) == Word(BitOr(x.hi, y.hi, 16), BitOr(x.lo, y.lo, 16))
Xor32(x, y) == Word(BitXor(x.hi, y.hi, 16), BitXor(x.lo, y.lo, 16))
Not32(x) == Word(Half - 1 - x.hi, Half - 1 - x.lo)

\* x + y on uint32_t: the carry out of bit 31 is dropped.
Add32(x, y) ==
    LET lo == x.lo + y.lo
        hi == x.hi + y.hi + (lo \div Half)
    IN Word(hi % Half, lo % Half)

\* x << n and x >> n on uint32_t, for 0 < n < 32.
Shl32(x, n) ==
    IF n >= 16
    THEN Word((x.lo * (2 ^ (n - 16))) % Half, 0)
    ELSE Word(((x.hi * (2 ^ n)) % Half) + (x.lo \div (2 ^ (16 - n))), (x.lo * (2 ^ n)) % Half)

Shr32(x, n) ==
    IF n >= 16
    THEN Word(0, x.hi \div (2 ^ (n - 16)))
    ELSE Word(x.hi \div (2 ^ n), ((x.hi * (2 ^ (16 - n))) % Half) + (x.lo \div (2 ^ n)))

\* rotateLeft that drops the bits shifted out.
RotateLeftNoWrap(x, n) == Shl32(x, n)

\* rotateLeft: (x << n) | (x >> (32 - n))
rotateLeft(x, n) == Or32(Shl32(x, n), Shr32(x, 32 - n))

\* The bit-manipulation macros of the four groups of rounds.
F(X, Y, Z) == Or32(And32(X, Y), And32(Not32(X), Z))
G(X, Y, Z) == Or32(And32(X, Z), And32(Y, Not32(Z)))
H(X, Y, Z) == Xor32(Xor32(X, Y), Z)
I(X, Y, Z) == Xor32(Y, Or32(X, Not32(Z)))

\* PADDING: 0x80 followed by 63 zero bytes, from index 0.
PADDING == [i \in 0 .. 63 |-> IF i = 0 THEN 128 ELSE 0]

\* One turn of the loop of md5Step: r is <<AA, BB, CC, DD>> before round i.
Round(r, input, i) ==
    LET AA == r[1]
        BB == r[2]
        CC == r[3]
        DD == r[4]
        E == IF i \div 16 = 0 THEN F(BB, CC, DD)
             ELSE IF i \div 16 = 1 THEN G(BB, CC, DD)
             ELSE IF i \div 16 = 2 THEN H(BB, CC, DD)
             ELSE I(BB, CC, DD)
        j == IF i \div 16 = 0 THEN i
             ELSE IF i \div 16 = 1 THEN ((i * 5) + 1) % 16
             ELSE IF i \div 16 = 2 THEN ((i * 3) + 5) % 16
             ELSE (i * 7) % 16
        sum == Add32(Add32(Add32(AA, E), K[i + 1]), input[j])
    IN <<DD, Add32(BB, rotateLeft(sum, S[i + 1])), BB, CC>>

\* The word made of the four bytes from index 4 * j of the 64 bytes, the
\* first of them the least significant.
LittleEndian(bytes, j) ==
    Word(bytes[(j * 4) + 3] * 256 + bytes[(j * 4) + 2],
         bytes[(j * 4) + 1] * 256 + bytes[j * 4])

\* MD5Context_t after md5Init; input and digest hold what the stack held.
md5Init(garbage) ==
    [size |-> 0,
     buffer |-> [n \in 0 .. 3 |-> IF n = 0 THEN A ELSE IF n = 1 THEN B
                                  ELSE IF n = 2 THEN C ELSE D],
     input |-> [n \in 0 .. 63 |-> garbage],
     digest |-> [n \in 0 .. 15 |-> garbage]]

\* The loop of md5String writing the low four bits of each byte first.
HexLowFirst(digest) ==
    [n \in 1 .. 32 |->
        LET i == (n - 1) \div 2
        IN IF (n - 1) % 2 = 0
           THEN hex[(digest[i] % 16) + 1]
           ELSE hex[(digest[i] \div 16) + 1]]

\* The loop of md5String that turns the digest into the string:
\* result[2i] = hex[(digest[i] & 0xF0) >> 4], result[2i + 1] = hex[digest[i] & 0x0F].
\* The string is the sequence of its characters, result[n] being at n + 1.
HexString(digest) ==
    [n \in 1 .. 32 |->
        LET i == (n - 1) \div 2
        IN IF (n - 1) % 2 = 0
           THEN hex[(BitAnd(digest[i], 240, 8) \div 16) + 1]
           ELSE hex[BitAnd(digest[i], 15, 8) + 1]]

\* The bytes of a string of the letters a .. z and the space.
Letters ==
    <<"a", "b", "c", "d", "e", "f", "g", "h", "i", "j", "k", "l", "m",
      "n", "o", "p", "q", "r", "s", "t", "u", "v", "w", "x", "y", "z">>
Byte(c) == IF c = " " THEN 32 ELSE 96 + (CHOOSE i \in 1 .. Len(Letters) : Letters[i] = c)

\* The bytes of the string given to md5String, from index 0.
Bytes(input) == [i \in 0 .. Len(input) - 1 |-> Byte(input[i + 1])]

\* No call of md5String is followed.  Of a call that is followed:
\*   ctx            the MD5Context_t,
\*   buf, len, i    md5Update's input_buffer and input_len and its index i,
\*   padding        whether md5Update was called by md5Finalize,
\*   offset         md5Update's offset,
\*   words          md5Step's input,
\*   r, round       md5Step's AA, BB, CC, DD and its index i,
\*   result         the string returned.
NoDigest ==
    [pc |-> "idle", input |-> <<>>, garbage |-> 0, ctx |-> md5Init(0),
     buf |-> <<>>, len |-> 0, i |-> 0, padding |-> FALSE, padding_length |-> 0,
     offset |-> 0, words |-> <<>>, r |-> <<>>, round |-> 0, result |-> <<>>]

\* The frame of the steps of md5String.
HashFrame ==
    UNCHANGED <<req, env, settings, serverHandler, sig, sup, queue, queueMutex, conns, wk,
                lruCache, cache, ghost>>

\* md5String: md5Init(&ctx), and md5Update(&ctx, input, strlen(input)) up to
\* its loop.
H_Init ==
    /\ md.pc = "call"
    /\ LET ctx == md5Init(md.garbage)
       IN md' = [md EXCEPT !.ctx = [ctx EXCEPT !.size = ctx.size + Len(md.input)],
                           !.offset = ctx.size % 64,
                           !.buf = Bytes(md.input), !.len = Len(md.input), !.i = 0,
                           !.padding = FALSE, !.pc = "update"]
    /\ HashFrame

\* md5Update: one turn of the for loop.  The byte is copied to
\* ctx->input[offset++]; when that fills the 64 bytes, they are turned into
\* the 16 little-endian words and md5Step is called.
H_Update ==
    /\ md.pc = "update" /\ md.i < md.len
    /\ LET ctx == [md.ctx EXCEPT !.input[md.offset] = md.buf[md.i]]
           offset == md.offset + 1
       IN IF offset % 64 = 0
          THEN md' = [md EXCEPT !.ctx = ctx, !.offset = offset,
                                !.words = [j \in 0 .. 15 |-> LittleEndian(ctx.input, j)],
                                !.r = <<ctx.buffer[0], ctx.buffer[1], ctx.buffer[2],
                                        ctx.buffer[3]>>,
                                !.round = 0, !.pc = "step"]
          ELSE md' = [md EXCEPT !.ctx = ctx, !.offset = offset, !.i = md.i + 1]
    /\ HashFrame

\* md5Step: one turn of the loop over the 64 rounds.
H_Round ==
    /\ md.pc \in {"step", "last_step"} /\ md.round < 64
    /\ md' = [md EXCEPT !.r = Round(md.r, md.words, md.round), !.round = md.round + 1]
    /\ HashFrame

\* md5Step after the loop: buffer[n] += AA, BB, CC, DD.  Called by md5Update,
\* the loop of md5Update goes on with offset = 0.
H_StepEnd ==
    /\ md.pc \in {"step", "last_step"} /\ md.round = 64
    /\ LET buffer == [n \in 0 .. 3 |-> Add32(md.ctx.buffer[n], md.r[n + 1])]
       IN IF md.pc = "step"
          THEN md' = [md EXCEPT !.ctx.buffer = buffer, !.offset = 0, !.i = md.i + 1,
                                !.pc = "update"]
          ELSE md' = [md EXCEPT !.ctx.buffer = buffer, !.pc = "digest"]
    /\ HashFrame

\* md5Update returns.  To md5String: md5Finalize is called, it computes the
\* length of the padding and calls md5Update(ctx, PADDING, padding_length).
\* To md5Finalize: the size is set back, the 14 words of the last block are
\* followed by the length in bits, and md5Step is called.
H_UpdateEnd ==
    /\ md.pc = "update" /\ md.i >= md.len
    /\ IF ~md.padding
       THEN LET offset == md.ctx.size % 64
                padding_length == IF offset < 56 THEN 56 - offset ELSE (56 + 64) - offset
            IN md' = [md EXCEPT !.ctx.size = md.ctx.size + padding_length,
                                !.offset = md.ctx.size % 64,
                                !.buf = PADDING, !.len = padding_length, !.i = 0,
                                !.padding_length = padding_length,
                                !.padding = TRUE]
       ELSE LET size == md.ctx.size - md.padding_length
                bits == size * 8
            IN md' = [md EXCEPT
                   !.ctx.size = size,
                   !.words = [j \in 0 .. 15 |->
                                 IF j < 14 THEN LittleEndian(md.ctx.input, j)
                                 ELSE IF j = 14
                                 THEN Word((bits \div Half) % Half, bits % Half)
                                 ELSE Word(0, (bits \div Half) \div Half)],
                   !.r = <<md.ctx.buffer[0], md.ctx.buffer[1], md.ctx.buffer[2],
                           md.ctx.buffer[3]>>,
                   !.round = 0, !.pc = "last_step"]
    /\ HashFrame

\* The bytes of the digest: the four words of buffer, each from its least
\* significant byte.
Digest(buffer) ==
    [n \in 0 .. 15 |->
        LET w == buffer[n \div 4]
        IN IF n % 4 = 0 THEN w.lo % 256
           ELSE IF n % 4 = 1 THEN w.lo \div 256
           ELSE IF n % 4 = 2 THEN w.hi % 256
           ELSE w.hi \div 256]

\* md5Finalize moves the result into digest and returns; md5String turns
\* the digest into the string and returns it.
H_Return ==
    /\ md.pc = "digest"
    /\ LET digest == Digest(md.ctx.buffer)
       IN md' = [md EXCEPT !.ctx.digest = digest, !.result = HexString(digest),
                           !.pc = "returned"]
    /\ HashFrame

(* ------------------------- the digest strings -------------------------- *)

\* A node's md5 field is written as the message the string is the digest of
\* (NullStr: no string).  A worker's pointer to a digest string records also
\* where the string is kept and whether it has been released since:
\*   of    the message it is the digest of,
\*   at    the pool slot whose md5 field points to the same string, NULL while
\*         only the worker points to it,
\*   freed TRUE once free() was called on the string.
NoMd5 == [of |-> NullStr, at |-> NULL, freed |-> FALSE]

\* md5String: a fresh string holding the digest of input.
md5String(input) == [of |-> input, at |-> NULL, freed |-> FALSE]

\* free(cachePool[node]->md5): every worker's pointer to that string dangles.
FreeMd5(workers, node) ==
    [w \in DOMAIN workers |->
        IF workers[w].md5.at = node /\ workers[w].md5.of # NullStr
        THEN [workers[w] EXCEPT !.md5.freed = TRUE]
        ELSE workers[w]]

(* --------------------------- requestQueue.c ---------------------------- *)

\* The address of start_server's local variable `connection`: the payload of
\* every node the supervisor pushes.
AddrConnection == 1

\* A queue node that is not allocated.
NoQNode == [alloc |-> FALSE, data |-> NULL, next |-> NULL, prev |-> NULL]

\* linked_queue_init
linked_queue_init ==
    [first |-> NULL, last |-> NULL, elements |-> 0,
     nodes |-> [n \in QNodes |-> NoQNode],
     condMutex |-> 0, waiters |-> {}]

\* linked_queue_append_node linking the node before the first one.
AppendNodeInFront(q, node) ==
    IF q.first = NULL
    THEN [q EXCEPT !.first = node, !.last = node,
                   !.nodes[node].prev = NULL, !.nodes[node].next = NULL,
                   !.elements = q.elements + 1]
    ELSE [q EXCEPT !.nodes[q.first].prev = node,
                   !.nodes[node].next = q.first, !.nodes[node].prev = NULL,
                   !.first = node,
                   !.elements = q.elements + 1]

\* linked_queue_append_node: the node is linked after the last one.
linked_queue_append_node(q, node) ==
    IF q.first = NULL
    THEN [q EXCEPT !.first = node, !.last = node,
                   !.nodes[node].prev = NULL, !.nodes[node].next = NULL,
                   !.elements = q.elements + 1]
    ELSE [q EXCEPT !.nodes[q.last].next = node,
                   !.nodes[node].prev = q.last, !.nodes[node].next = NULL,
                   !.last = node,
                   !.elements = q.elements + 1]

\* calloc of a queue node followed by node->data = data, node->next = NULL.
NewQNode(q, data) ==
    LET node == Min({n \in QNodes : ~q.nodes[n].alloc})
    IN [queue |-> [q EXCEPT !.nodes[node] =
                       [alloc |-> TRUE, data |-> data, next |-> NULL, prev |-> NULL]],
        node |-> node]

\* linked_queue_pop_node that leaves last as it is when the queue empties.
PopNodeKeepsLast(q) ==
    LET tmp == q.first
        first == q.nodes[q.first].next
        q1 == [q EXCEPT !.first = first]
        q2 == IF first # NULL
              THEN [q1 EXCEPT !.nodes[first].prev = NULL]
              ELSE q1
    IN [q2 EXCEPT !.elements = q.elements - 1, !.nodes[tmp] = NoQNode]

\* linked_queue_pop_node: unlink the first node and release it.
linked_queue_pop_node(q) ==
    LET tmp == q.first
        first == q.nodes[q.first].next
        q1 == [q EXCEPT !.first = first]
        q2 == IF first # NULL
              THEN [q1 EXCEPT !.nodes[first].prev = NULL]
              ELSE [q1 EXCEPT !.last = NULL]
    IN [q2 EXCEPT !.elements = q.elements - 1, !.nodes[tmp] = NoQNode]

\* linked_queue_pop: the payload of the first node, which is unlinked; NULL
\* and no change when the queue is empty.
linked_queue_pop(q) ==
    IF q.first # NULL
    THEN [queue |-> linked_queue_pop_node(q), data |-> q.nodes[q.first].data,
          node |-> q.first]
    ELSE [queue |-> q, data |-> NULL, node |-> NULL]

\* pthread_cond_signal: at most one of the threads waiting is released.
CondSignal(q, w) == [q EXCEPT !.waiters = q.waiters \ {w}]

(* ---------------- requestMonitor.c: tokenize_request ------------------- *)

\* A buffer is the sequence of its characters up to the terminating NUL.
Digits == <<"0", "1", "2", "3", "4", "5", "6", "7", "8", "9">>
IsDigit(c) == \E i \in 1 .. Len(Digits) : Digits[i] = c
DigitValue(c) == (CHOOSE i \in 1 .. Len(Digits) : Digits[i] = c) - 1

\* isspace, as strtoul uses it to skip what precedes the number.
IsSpace(c) == c \in {" ", "\t", "\n", "\r"}

\* strtok(str, " ") continued at index i: the delimiters before the token
\* are skipped; next is where the following call continues.  An empty
\* token stands for the NULL that strtok returns at the end of the buffer.
RECURSIVE SkipDelim(_, _)
SkipDelim(str, i) ==
    IF i <= Len(str) /\ str[i] = " " THEN SkipDelim(str, i + 1) ELSE i

RECURSIVE TokenEnd(_, _)
TokenEnd(str, i) ==
    IF i <= Len(str) /\ str[i] # " " THEN TokenEnd(str, i + 1) ELSE i

strtok(str, i) ==
    LET b == SkipDelim(str, i)
        e == TokenEnd(str, b)
    IN IF b > Len(str)
       THEN [token |-> <<>>, next |-> b]
       ELSE [token |-> SubSeq(str, b, e - 1), next |-> e + 1]

\* The digits of strtoul, read base 10 from index i until the first
\* character that is not a digit; no digit at all gives 0.
RECURSIVE ReadDigits(_, _, _)
ReadDigits(token, i, acc) ==
    IF i <= Len(token) /\ IsDigit(token[i])
    THEN ReadDigits(token, i + 1, acc * 10 + DigitValue(token[i]))
    ELSE acc

RECURSIVE SkipSpace(_, _)
SkipSpace(token, i) ==
    IF i <= Len(token) /\ IsSpace(token[i]) THEN SkipSpace(token, i + 1) ELSE i

\* strtoul that reads one digit only.
StrtoulOneDigit(token) ==
    LET b == SkipSpace(token, 1)
        signed == b <= Len(token) /\ token[b] \in {"+", "-"}
        d == IF signed THEN b + 1 ELSE b
        v == IF d <= Len(token) /\ IsDigit(token[d]) THEN DigitValue(token[d]) ELSE 0
    IN IF signed /\ token[b] = "-" THEN 0 - v ELSE v

\* strtoul(token, NULL, 10) stored in the time_t mseconds: leading white
\* space and one sign are skipped, the digits are read, the rest is
\* ignored; a minus sign negates the value.
strtoul(token) ==
    LET b == SkipSpace(token, 1)
        signed == b <= Len(token) /\ token[b] \in {"+", "-"}
        d == IF signed THEN b + 1 ELSE b
        v == ReadDigits(token, d, 0)
    IN IF signed /\ token[b] = "-" THEN 0 - v ELSE v

\* request_t before a call: msg NULL, mseconds 0.
NoFields == [msg |-> <<>>, mseconds |-> 0]

\* The for loop of tokenize_request from index i of the buffer, with
\* requestIterator tokens seen so far, and the test after the loop.
RECURSIVE TokenLoop(_, _, _, _)
TokenLoop(str, i, requestIterator, request) ==
    LET t == strtok(str, i)
        n == requestIterator + 1
    IN IF t.token = <<>>
       THEN [ret |-> IF requestIterator # REQUEST_FIELDS THEN ERROR ELSE SUCCESS,
             request |-> request]
       ELSE IF n = 1
       THEN IF t.token # <<"g", "e", "t">>
            THEN [ret |-> ERROR, request |-> request]
            ELSE TokenLoop(str, t.next, n, request)
       ELSE IF n = 2
       THEN TokenLoop(str, t.next, n, [request EXCEPT !.msg = t.token])
       ELSE IF n = 3
       THEN TokenLoop(str, t.next, n, [request EXCEPT !.mseconds = strtoul(t.token)])
       ELSE [ret |-> ERROR, request |-> request]

\* tokenize_request(str, request)
tokenize_request(str) == TokenLoop(str, 1, 0, NoFields)

\* No call of tokenize_request is followed.
NoRequest == [pc |-> "idle", buffer |-> <<>>, ret |-> SUCCESS, request |-> NoFields]

\* The buffers given to tokenize_request: a verb, a message and a delay, each
\* of them possibly missing or malformed, with one or two spaces between
\* them and with or without something before and after.
Verbs == {<<"g", "e", "t">>, <<"g", "e">>, <<>>}
MsgTokens == {<<"a">>, <<"a", "b">>, <<"5">>, <<>>}
RECURSIVE decimal(_)
decimal(d) ==
    IF d < 10 THEN <<Digits[d + 1]>>
    ELSE decimal(d \div 10) \o <<Digits[(d % 10) + 1]>>
DelayTokens ==
    {decimal(d) : d \in 0 .. MaxDelay}
        \cup {<<"x">>, <<"5", "x">>, <<"5", "\n">>, <<"-", "1">>, <<>>}
Seps == {<<" ">>, <<" ", " ">>}
Leads == {<<>>, <<" ">>}
Trails == {<<>>, <<" ">>, <<" ", "x">>}
Buffers ==
    {lead \o v \o s1 \o m \o s2 \o d \o t :
        lead \in Leads, v \in Verbs, s1 \in Seps, m \in MsgTokens, s2 \in Seps,
        d \in DelayTokens, t \in Trails}

\* read_client_request calls tokenize_request(buffer, request).
P_Tokenize ==
    /\ req.pc = "call"
    /\ LET r == tokenize_request(req.buffer)
       IN req' = [req EXCEPT !.pc = "returned", !.ret = r.ret, !.request = r.request]
    /\ UNCHANGED <<md, env, settings, serverHandler, sig, sup, queue, queueMutex, conns, wk,
                   lruCache, cache, ghost>>

(* ------------------------------ history -------------------------------- *)

\* ghost.lruOrder: the pool slots in the order of their last use (a put that
\* wrote the slot or a get that found it), most recent first.
Touch(order, node) == <<node>> \o SeqRemove(order, node)

\* ghost.hit, ghost.since: for a message found by a get, the other messages
\* found or put since then; followed until there are totalCapacity - 1 of them.
Since(g, k, found, capacity) ==
    LET hit1 == IF found THEN g.hit \cup {k} ELSE g.hit
        since1 == [m \in Msgs |->
                      IF m = k THEN (IF found THEN {} ELSE g.since[m])
                      ELSE IF m \in hit1 THEN g.since[m] \cup {k} ELSE {}]
        hit2 == {m \in hit1 : Cardinality(since1[m]) < capacity - 1}
    IN [g EXCEPT !.hit = hit2,
                 !.since = [m \in Msgs |-> IF m \in hit2 THEN since1[m] ELSE {}]]

\* ghost.putSeq: the messages put since the cache was created, for as long as
\* they are all different and no get has found anything (ghost.pure).
Puts(g, k, capacity) ==
    IF g.pure /\ Len(g.putSeq) <= capacity /\ \A i \in 1 .. Len(g.putSeq) : g.putSeq[i] # k
    THEN [g EXCEPT !.putSeq = Append(g.putSeq, k)]
    ELSE [g EXCEPT !.putSeq = <<>>, !.pure = FALSE]

NoHistory ==
    [pushed |-> <<>>, popped |-> <<>>, entry |-> [n \in QNodes |-> NULL],
     lruOrder |-> <<>>, putSeq |-> <<>>, pure |-> TRUE,
     hit |-> {}, since |-> [m \in Msgs |-> {}],
     evict |-> [node |-> NULL, oldest |-> NULL],
     released |-> {}, out |-> <<>>]

(* ------------------------------- Init ---------------------------------- *)

\* request_monitor's locals before the first pop.
IdleWorker ==
    [pc |-> "loop", clientSocket |-> NULL, recvSocket |-> NULL, connection |-> NULL,
     msg |-> NullStr, md5 |-> NoMd5, cache |-> NULL, node |-> NULL, res |-> "none",
     reply |-> NullStr, entry |-> NULL, drains |-> 0]

\* The server after initialize_server_data, setup_server_networking and the
\* pthread_create loop of start_server, for -C cacheSize -t threadNumber.
InitWith(cacheSize, threadNumber, given) ==
    /\ env = given
    /\ settings = [cacheSize |-> cacheSize, threadNumber |-> threadNumber]
    /\ serverHandler = {SERVER_ENABLED}
    /\ sig = [pc |-> "idle", usr1 |-> 0, term |-> 0]
    /\ sup = [pc |-> "loop", connection |-> NULL, tmp |-> {}]
    /\ queue = linked_queue_init
    /\ queueMutex = 0
    /\ conns = [c \in Fds |-> [st |-> "none", closes |-> 0, users |-> {}]]
    /\ wk = [w \in 1 .. threadNumber |-> IdleWorker]
    /\ lruCache = 1
    /\ cache = lru_cache_init(1, cacheSize)
    /\ ghost = NoHistory

Running == sup.pc # "crashed"

\* A fault that ends the process (SIGSEGV): every thread stops.
Crash(what) ==
    /\ sup' = [sup EXCEPT !.pc = "crashed"]
    /\ ghost' = [ghost EXCEPT !.released = @ \cup {what}]
    /\ UNCHANGED <<md, req, env, settings, serverHandler, sig, queue, queueMutex, conns, wk,
                   lruCache, cache>>

(* ------------------------- the accepted sockets ------------------------ *)

\* The sup.pc values inside start_server, where its local `connection` exists.
InStartServer ==
    {"loop", "check_usr1", "ec_read", "ec_write", "ec_free", "ec_safe_free", "ec_init",
     "accept", "push"}

\* The values a worker can read through the pointer it popped: the
\* supervisor's variable `connection` as it is now; any value once
\* start_server has returned and the variable is gone.
Deref == IF sup.pc \in InStartServer THEN {sup.connection} ELSE Fds \cup {SOCKETERR}

\* recv or send by worker w on descriptor fd.
Use(cs, fd, w) ==
    IF fd \in Fds /\ cs[fd].st # "none"
    THEN [cs EXCEPT ![fd].users = @ \cup {w}]
    ELSE cs

\* close(fd) by worker w; closes counts the calls (2: two or more).
Close(cs, fd, w) ==
    IF fd \in Fds /\ cs[fd].st # "none"
    THEN [cs EXCEPT ![fd].st = "closed",
                    ![fd].closes = IF @ < 2 THEN @ + 1 ELSE 2,
                    ![fd].users = @ \cup {w}]
    ELSE cs

(* --------------------- requestMonitor.c: the workers ------------------- *)

\* request_monitor: the loop condition.
W_Loop(w) ==
    /\ Running /\ wk[w].pc = "loop"
    /\ wk' = [wk EXCEPT ![w].pc = IF SERVER_ENABLED \in serverHandler
                                  THEN "lock_queue" ELSE "exit"]
    /\ UNCHANGED <<md, req, env, settings, serverHandler, sig, sup, queue, queueMutex, conns,
                   lruCache, cache, ghost>>

\* W_LockQueue that does not wait for queueMutex to be free.
LockQueueNoWait(w) ==
    /\ Running /\ wk[w].pc = "lock_queue"
    /\ queueMutex' = w
    /\ wk' = [wk EXCEPT ![w].pc = "pop_lock"]
    /\ UNCHANGED <<md, req, env, settings, serverHandler, sig, sup, queue, conns, lruCache, cache,
                   ghost>>

\* pthread_mutex_lock(&serverState->queueMutex)
W_LockQueue(w) ==
    /\ Running /\ wk[w].pc = "lock_queue"
    /\ queueMutex = 0
    /\ queueMutex' = w
    /\ wk' = [wk EXCEPT ![w].pc = "pop_lock"]
    /\ UNCHANGED <<md, req, env, settings, serverHandler, sig, sup, queue, conns, lruCache, cache,
                   ghost>>

\* linked_queue_pop_ex: pthread_mutex_lock(&queue->condMutex)
W_PopLock(w) ==
    /\ Running /\ wk[w].pc = "pop_lock"
    /\ queue.condMutex = 0
    /\ queue' = [queue EXCEPT !.condMutex = w]
    /\ wk' = [wk EXCEPT ![w].pc = "pop_try"]
    /\ UNCHANGED <<md, req, env, settings, serverHandler, sig, sup, queueMutex, conns, lruCache,
                   cache, ghost>>

\* W_PopTry that tests SERVER_SIGTERM before it pops.
PopTryTermFirst(w) ==
    /\ Running /\ wk[w].pc = "pop_try"
    /\ LET r == linked_queue_pop(queue)
       IN IF SERVER_SIGTERM \in serverHandler
          THEN /\ queue' = [queue EXCEPT !.condMutex = 0]
               /\ queueMutex' = 0
               /\ wk' = [wk EXCEPT ![w].pc = "read", ![w].clientSocket = NULL]
               /\ ghost' = ghost
          ELSE IF r.data # NULL
          THEN /\ queue' = [r.queue EXCEPT !.condMutex = 0]
               /\ queueMutex' = 0
               /\ wk' = [wk EXCEPT ![w].pc = "read", ![w].clientSocket = r.data,
                                   ![w].entry = ghost.entry[r.node]]
               /\ ghost' = [ghost EXCEPT !.popped = Append(@, ghost.entry[r.node]),
                                         !.entry[r.node] = NULL]
          ELSE /\ wk' = [wk EXCEPT ![w].pc = "pop_wait"]
               /\ UNCHANGED <<queue, queueMutex, ghost>>
    /\ UNCHANGED <<md, req, env, settings, serverHandler, sig, sup, conns, lruCache, cache>>

\* linked_queue_pop_ex: one turn of the while loop, condMutex held.  With a
\* payload, or with none and SERVER_SIGTERM set, the loop ends: condMutex is
\* unlocked, the call returns and request_monitor unlocks queueMutex.
\* Otherwise the worker goes on to pthread_cond_wait.
W_PopTry(w) ==
    /\ Running /\ wk[w].pc = "pop_try"
    /\ LET r == linked_queue_pop(queue)
       IN IF r.data # NULL
          THEN /\ queue' = [r.queue EXCEPT !.condMutex = 0]
               /\ queueMutex' = 0
               /\ wk' = [wk EXCEPT ![w].pc = "read", ![w].clientSocket = r.data,
                                   ![w].entry = ghost.entry[r.node]]
               /\ ghost' = [ghost EXCEPT !.popped = Append(@, ghost.entry[r.node]),
                                         !.entry[r.node] = NULL]
          ELSE IF SERVER_SIGTERM \in serverHandler
          THEN /\ queue' = [queue EXCEPT !.condMutex = 0]
               /\ queueMutex' = 0
               /\ wk' = [wk EXCEPT ![w].pc = "read", ![w].clientSocket = NULL]
               /\ ghost' = ghost
          ELSE /\ wk' = [wk EXCEPT ![w].pc = "pop_wait"]
               /\ UNCHANGED <<queue, queueMutex, ghost>>
    /\ UNCHANGED <<md, req, env, settings, serverHandler, sig, sup, conns, lruCache, cache>>

\* W_PopWait in which the wait keeps condMutex locked.
PopWaitKeepsMutex(w) ==
    /\ Running /\ wk[w].pc = "pop_wait"
    /\ queue' = [queue EXCEPT !.waiters = @ \cup {w}]
    /\ wk' = [wk EXCEPT ![w].pc = "waiting"]
    /\ UNCHANGED <<md, req, env, settings, serverHandler, sig, sup, queueMutex, conns, lruCache,
                   cache, ghost>>

\* pthread_cond_wait: condMutex is released and the worker waits.
W_PopWait(w) ==
    /\ Running /\ wk[w].pc = "pop_wait"
    /\ queue' = [queue EXCEPT !.condMutex = 0, !.waiters = @ \cup {w}]
    /\ wk' = [wk EXCEPT ![w].pc = "waiting"]
    /\ UNCHANGED <<md, req, env, settings, serverHandler, sig, sup, queueMutex, conns, lruCache,
                   cache, ghost>>

\* pthread_cond_wait returns: the worker was released and takes condMutex again.
W_Wake(w) ==
    /\ Running /\ wk[w].pc = "waiting"
    /\ w \notin queue.waiters
    /\ queue.condMutex = 0
    /\ queue' = [queue EXCEPT !.condMutex = w]
    /\ wk' = [wk EXCEPT ![w].pc = "pop_try"]
    /\ UNCHANGED <<md, req, env, settings, serverHandler, sig, sup, queueMutex, conns, lruCache,
                   cache, ghost>>

\* A spurious wake-up, which pthread_cond_wait allows (and never promises).
Spurious(w) ==
    /\ Running /\ wk[w].pc = "waiting"
    /\ w \in queue.waiters
    /\ queue' = CondSignal(queue, w)
    /\ UNCHANGED <<md, req, env, settings, serverHandler, sig, sup, queueMutex, conns, wk,
                   lruCache, cache, ghost>>

\* read_client_request up to the recv: NULL pointer check, recvSocket =
\* *connection, recv, and on success tokenize_request.  res is what came of it:
\* "timeout" (EAGAIN), "error" (any other recv error), "toolong" (more than
\* MAXREQUESTSIZE bytes, the input is cleared next), "invalid"
\* (tokenize_request failed), "ok".
W_Recv(w) ==
    /\ Running /\ wk[w].pc = "read"
    /\ IF wk[w].clientSocket = NULL
       THEN /\ wk' = [wk EXCEPT ![w] = IdleWorker]
            /\ conns' = conns
       ELSE \E fd \in Deref :
              IF fd \in Fds /\ conns[fd].st = "open"
              THEN /\ conns' = Use(conns, fd, w)
                   /\ \/ \E res \in {"timeout", "error", "toolong", "invalid"} :
                           wk' = [wk EXCEPT ![w].recvSocket = fd, ![w].res = res,
                                            ![w].pc = IF res = "toolong" THEN "drain"
                                                      ELSE "read_fail"]
                      \/ \E k \in env.msgs :
                           wk' = [wk EXCEPT ![w].recvSocket = fd, ![w].res = "ok",
                                            ![w].msg = k, ![w].pc = "process"]
              ELSE /\ conns' = Use(conns, fd, w)
                   /\ wk' = [wk EXCEPT ![w].recvSocket = fd, ![w].res = "error",
                                       ![w].pc = "read_fail"]
    /\ UNCHANGED <<md, req, env, settings, serverHandler, sig, sup, queue, queueMutex, lruCache,
                   cache, ghost>>

\* read_client_request after more than MAXREQUESTSIZE bytes: one turn of
\* do memset(buffer) while (recv(recvSocket, buffer, ...) > 0).  The client
\* has sent more and the loop goes on, or recv returns 0 (the client closed)
\* or SOCKETERR (nothing came within the time-out) and the loop ends.
\* drains is the number of turns taken, modulo 2.
W_Drain(w) ==
    /\ Running /\ wk[w].pc = "drain"
    /\ conns' = Use(conns, wk[w].recvSocket, w)
    /\ \/ wk' = [wk EXCEPT ![w].drains = (@ + 1) % 2]
       \/ wk' = [wk EXCEPT ![w].drains = 0, ![w].pc = "read_fail"]
    /\ UNCHANGED <<md, req, env, settings, serverHandler, sig, sup, queue, queueMutex, lruCache,
                   cache, ghost>>

\* ErrorReply with the lines of the time-out and of the long request swapped.
ErrorReplySwapped(res) ==
    IF res = "timeout" THEN SEND_LONG_REQUEST
    ELSE IF res = "toolong" THEN SEND_TIMEOUT
    ELSE IF res = "invalid" THEN SEND_INVALID_REQUEST
    ELSE NullStr

\* The line read_client_request sends for each way the read can fail:
\* recv returns SOCKETERR with errno EAGAIN ("timeout") or another errno
\* ("error", nothing is sent), recv returns more than MAXREQUESTSIZE bytes
\* ("toolong"), tokenize_request returns ERROR ("invalid").
ErrorReply(res) ==
    IF res = "timeout" THEN SEND_TIMEOUT
    ELSE IF res = "toolong" THEN SEND_LONG_REQUEST
    ELSE IF res = "invalid" THEN SEND_INVALID_REQUEST
    ELSE NullStr

\* read_client_request after a failed read or parse: the error line is sent
\* on recvSocket (none for "error").
W_ReadFail(w) ==
    /\ Running /\ wk[w].pc = "read_fail"
    /\ conns' = Use(conns, wk[w].recvSocket, w)
    /\ wk' = [wk EXCEPT ![w].reply = ErrorReply(wk[w].res), ![w].pc = "fail_close"]
    /\ UNCHANGED <<md, req, env, settings, serverHandler, sig, sup, queue, queueMutex, lruCache,
                   cache, ghost>>

\* A failed read that goes on to process_client_request.
ReadCloseThenProcess(w) ==
    /\ Running /\ wk[w].pc = "fail_close"
    /\ conns' = Close(conns, wk[w].recvSocket, w)
    /\ wk' = [wk EXCEPT ![w].msg = "a", ![w].pc = "process"]
    /\ UNCHANGED <<md, req, env, settings, serverHandler, sig, sup, queue, queueMutex, lruCache,
                   cache, ghost>>

\* read_client_request after a failed read or parse: close(recvSocket),
\* return false; request_monitor continues with its loop.
W_ReadClose(w) ==
    /\ Running /\ wk[w].pc = "fail_close"
    /\ conns' = Close(conns, wk[w].recvSocket, w)
    /\ wk' = [wk EXCEPT ![w] = IdleWorker]
    /\ UNCHANGED <<md, req, env, settings, serverHandler, sig, sup, queue, queueMutex, lruCache,
                   cache, ghost>>

\* request_monitor calls process_client_request(*clientSocket, state, &request),
\* which calls lru_cache_get_element(serverState->lruCache, request->msg): the
\* two arguments are read.
W_Process(w) ==
    /\ Running /\ wk[w].pc = "process"
    /\ \E fd \in Deref :
         wk' = [wk EXCEPT ![w].connection = fd, ![w].cache = lruCache, ![w].pc = "get"]
    /\ UNCHANGED <<md, req, env, settings, serverHandler, sig, sup, queue, queueMutex, conns,
                   lruCache, cache, ghost>>

\* Whether a pointer to a cache object is the allocated object.
LiveCache(c) == c = cache.id /\ cache.alloc

\* GetOn after which the worker computes the digest whatever was found.
GetOnThenCompute(w, rel) ==
    LET r == lru_cache_get_element(cache, wk[w].msg)
    IN /\ cache' = r.cache
       /\ wk' = [wk EXCEPT ![w].node = NULL, ![w].cache = cache.id, ![w].pc = "compute"]
       /\ ghost' = [ghost EXCEPT !.putSeq = <<>>, !.pure = FALSE, !.released = @ \cup rel]
       /\ UNCHANGED <<md, req, env, settings, serverHandler, sig, sup, queue, queueMutex, conns,
                      lruCache>>

\* GetOn that returns without pthread_mutex_unlock when nothing is found.
GetOnMissKeepsLock(w, rel) ==
    LET r == lru_cache_get_element(cache, wk[w].msg)
        found == r.node # NULL
        g1 == IF found
              THEN [Since(ghost, wk[w].msg, TRUE, cache.totalCapacity)
                       EXCEPT !.lruOrder = Touch(@, r.node),
                              !.putSeq = <<>>, !.pure = FALSE]
              ELSE ghost
    IN /\ cache.mutex = 0
       /\ cache' = [r.cache EXCEPT !.mutex = IF found THEN 0 ELSE w]
       /\ wk' = [wk EXCEPT ![w].node = r.node, ![w].cache = cache.id,
                           ![w].res = IF found THEN @ ELSE "miss",
                           ![w].pc = IF found THEN "get_ret" ELSE "compute"]
       /\ ghost' = [g1 EXCEPT !.released = @ \cup rel]
       /\ UNCHANGED <<md, req, env, settings, serverHandler, sig, sup, queue, queueMutex, conns,
                      lruCache>>

\* lru_cache_get_element from pthread_mutex_lock(&cache->mutex) to
\* pthread_mutex_unlock, on the object `cache`.
GetOn(w, rel) ==
    LET r == lru_cache_get_element(cache, wk[w].msg)
        found == r.node # NULL
        g1 == IF found
              THEN [Since(ghost, wk[w].msg, TRUE, cache.totalCapacity)
                       EXCEPT !.lruOrder = Touch(@, r.node),
                              !.putSeq = <<>>, !.pure = FALSE]
              ELSE ghost
    IN /\ cache.mutex = 0
       /\ cache' = [r.cache EXCEPT !.mutex = 0]
       /\ wk' = [wk EXCEPT ![w].node = r.node, ![w].cache = cache.id,
                           ![w].res = IF found THEN @ ELSE "miss",
                           ![w].pc = IF found THEN "get_ret" ELSE "compute"]
       /\ ghost' = [g1 EXCEPT !.released = @ \cup rel]
       /\ UNCHANGED <<md, req, env, settings, serverHandler, sig, sup, queue, queueMutex, conns,
                      lruCache>>

\* lru_cache_get_element.  With a NULL cache pointer the lock faults.  With a
\* pointer to a released cache object the call faults, or runs on what is at
\* that address: the remains of the object, or the object allocated since.
W_Get(w) ==
    /\ Running /\ wk[w].pc = "get"
    /\ IF wk[w].cache = NULL THEN Crash("null")
       ELSE IF ~LiveCache(wk[w].cache) THEN Crash("cache") \/ GetOn(w, {"cache"})
       ELSE GetOn(w, {})

\* lru_cache_get_element after a hit: return tmpNode->md5, which reads the
\* node after the mutex is unlocked (with tmpNode NULL the call returns NULL
\* without a read, which W_Get includes).  A node released since then faults
\* or reads as NULL.
W_GetRet(w) ==
    /\ Running /\ wk[w].pc = "get_ret"
    /\ IF LiveCache(wk[w].cache) /\ wk[w].node \in DOMAIN cache.cachePool
       THEN /\ wk' = [wk EXCEPT ![w].md5 = [of |-> cache.cachePool[wk[w].node].md5,
                                            at |-> wk[w].node, freed |-> FALSE],
                                ![w].node = NULL, ![w].res = "hit", ![w].pc = "send"]
            /\ UNCHANGED <<sup, ghost>>
       ELSE \/ /\ sup' = [sup EXCEPT !.pc = "crashed"]
               /\ ghost' = [ghost EXCEPT !.released = @ \cup {"node"}]
               /\ wk' = wk
            \/ /\ wk' = [wk EXCEPT ![w].md5 = NoMd5, ![w].node = NULL,
                                   ![w].res = "miss", ![w].pc = "compute"]
               /\ ghost' = [ghost EXCEPT !.released = @ \cup {"node"}]
               /\ sup' = sup
    /\ UNCHANGED <<md, req, env, settings, serverHandler, sig, queue, queueMutex, conns, lruCache,
                   cache>>

\* process_client_request on a miss: md5String, usleep, and the cache pointer
\* read for the call of lru_cache_update_node.
W_Compute(w) ==
    /\ Running /\ wk[w].pc = "compute"
    /\ wk' = [wk EXCEPT ![w].md5 = md5String(wk[w].msg), ![w].cache = lruCache,
                        ![w].pc = "put"]
    /\ UNCHANGED <<md, req, env, settings, serverHandler, sig, sup, queue, queueMutex, conns,
                   lruCache, cache, ghost>>

\* lru_cache_update_node from pthread_mutex_lock(&cache->mutex) to
\* pthread_mutex_unlock, on the object `cache`.
\* After lru_cache_free the capacities are 0 and the else branch follows
\* head->prev into a released node: a fault, or a write to released memory.
PutOn(w, rel) ==
    IF cache.currentCapacity >= cache.totalCapacity /\ DOMAIN cache.cachePool = {}
    THEN \/ Crash("node")
         \/ /\ wk' = [wk EXCEPT ![w].pc = "send"]
            /\ ghost' = [ghost EXCEPT !.released = @ \cup rel \cup {"node"}]
            /\ UNCHANGED <<md, req, env, settings, serverHandler, sig, sup, queue, queueMutex,
                           conns, lruCache, cache>>
    ELSE LET r == lru_cache_update_node(cache, wk[w].msg, wk[w].md5.of)
             wk1 == IF r.freed THEN FreeMd5(wk, r.node) ELSE wk
             g1 == Puts(Since(ghost, wk[w].msg, FALSE, cache.totalCapacity),
                        wk[w].msg, cache.totalCapacity)
         IN /\ cache.mutex = 0
            /\ cache' = [r.cache EXCEPT !.mutex = 0]
            /\ wk' = [wk1 EXCEPT ![w].md5.at = r.node, ![w].pc = "send"]
            /\ ghost' = [g1 EXCEPT
                   !.lruOrder = Touch(@, r.node),
                   !.evict = IF r.freed
                             THEN [node |-> r.node,
                                   oldest |-> ghost.lruOrder[Len(ghost.lruOrder)]]
                             ELSE @,
                   !.released = @ \cup rel]
            /\ UNCHANGED <<md, req, env, settings, serverHandler, sig, sup, queue, queueMutex,
                           conns, lruCache>>

\* lru_cache_update_node, with the same faults as lru_cache_get_element.
W_Put(w) ==
    /\ Running /\ wk[w].pc = "put"
    /\ IF wk[w].cache = NULL THEN Crash("null")
       ELSE IF ~LiveCache(wk[w].cache) THEN Crash("cache") \/ PutOn(w, {"cache"})
       ELSE PutOn(w, {})

\* process_client_request: the two sends, free(request->msg), close(connection);
\* back in request_monitor the loop goes on.  Sending a released digest string
\* is recorded in ghost.released.
W_Send(w) ==
    /\ Running /\ wk[w].pc = "send"
    /\ conns' = Close(conns, wk[w].connection, w)
    /\ ghost' = [ghost EXCEPT !.released = IF wk[w].md5.freed THEN @ \cup {"md5"} ELSE @]
    /\ wk' = [wk EXCEPT ![w] = IdleWorker]
    /\ UNCHANGED <<md, req, env, settings, serverHandler, sig, sup, queue, queueMutex, lruCache,
                   cache>>

\* The inputs of process_client_request without the network: worker w has
\* popped a connection and read and parsed "get k <delay>" from it.
L_Request(w, k) ==
    /\ Running /\ wk[w].pc = "loop" /\ k \in env.msgs
    /\ wk' = [wk EXCEPT ![w].msg = k, ![w].res = "ok", ![w].connection = SOCKETERR,
                        ![w].cache = lruCache, ![w].pc = "get"]
    /\ UNCHANGED <<md, req, env, settings, serverHandler, sig, sup, queue, queueMutex, conns,
                   lruCache, cache, ghost>>

(* ---------------------- signalHandler.c: the latch --------------------- *)

\* signal_handler(SIGUSR1)
SigUsr1 ==
    /\ Running /\ sup.pc # "done"
    /\ sig.pc = "idle" /\ sig.usr1 < env.usr1
    /\ serverHandler' = serverHandler \cup {SERVER_SIGUSR1}
    /\ sig' = [sig EXCEPT !.usr1 = @ + 1]
    /\ UNCHANGED <<md, req, env, settings, sup, queue, queueMutex, conns, wk, lruCache, cache, ghost>>

\* signal_handler(SIGTERM or SIGINT), first statement: SERVER_ENABLED is cleared.
SigTerm ==
    /\ Running /\ sup.pc # "done"
    /\ sig.pc = "idle" /\ sig.term < env.term
    /\ serverHandler' = serverHandler \ {SERVER_ENABLED}
    /\ sig' = [sig EXCEPT !.pc = "term", !.term = @ + 1]
    /\ UNCHANGED <<md, req, env, settings, sup, queue, queueMutex, conns, wk, lruCache, cache, ghost>>

\* signal_handler(SIGTERM or SIGINT), second statement: SERVER_SIGTERM is set.
SigTermSet ==
    /\ Running
    /\ sig.pc = "term"
    /\ serverHandler' = serverHandler \cup {SERVER_SIGTERM}
    /\ sig' = [sig EXCEPT !.pc = "idle"]
    /\ UNCHANGED <<md, req, env, settings, sup, queue, queueMutex, conns, wk, lruCache, cache, ghost>>

(* ------------------------ main.c: the supervisor ----------------------- *)

\* start_server: the condition of the accept loop.
S_Loop ==
    /\ sup.pc = "loop"
    /\ sup' = [sup EXCEPT !.pc = IF SERVER_ENABLED \in serverHandler
                                 THEN "check_usr1" ELSE "td_signal"]
    /\ UNCHANGED <<md, req, env, settings, serverHandler, sig, queue, queueMutex, conns, wk,
                   lruCache, cache, ghost>>

\* start_server: if (serverHandler & SERVER_SIGUSR1) empty_cache(state);
S_CheckUsr1 ==
    /\ sup.pc = "check_usr1"
    /\ sup' = IF SERVER_SIGUSR1 \in serverHandler
              THEN [sup EXCEPT !.pc = "ec_read"]
              ELSE [sup EXCEPT !.pc = "accept"]
    /\ UNCHANGED <<md, req, env, settings, serverHandler, sig, queue, queueMutex, conns, wk,
                   lruCache, cache, ghost>>

\* empty_cache: the read of serverHandler for &= ~SERVER_SIGUSR1.
S_EcRead ==
    /\ sup.pc = "ec_read"
    /\ sup' = [sup EXCEPT !.pc = "ec_write", !.tmp = serverHandler]
    /\ UNCHANGED <<md, req, env, settings, serverHandler, sig, queue, queueMutex, conns, wk,
                   lruCache, cache, ghost>>

\* empty_cache: the write of serverHandler &= ~SERVER_SIGUSR1.
S_EcWrite ==
    /\ sup.pc = "ec_write"
    /\ serverHandler' = sup.tmp \ {SERVER_SIGUSR1}
    /\ sup' = [sup EXCEPT !.pc = "ec_free", !.tmp = {}]
    /\ UNCHANGED <<md, req, env, settings, sig, queue, queueMutex, conns, wk, lruCache, cache, ghost>>

\* empty_cache: lru_cache_free(state->lruCache), all of it under cache->mutex.
S_EcFree ==
    /\ sup.pc = "ec_free"
    /\ cache.mutex = 0
    /\ cache' = [lru_cache_free(cache) EXCEPT !.mutex = 0]
    /\ wk' = [w \in Workers |->
                 IF wk[w].md5.at # NULL THEN [wk[w] EXCEPT !.md5.freed = TRUE]
                 ELSE wk[w]]
    /\ ghost' = [ghost EXCEPT !.lruOrder = <<>>, !.putSeq = <<>>, !.pure = TRUE,
                              !.hit = {}, !.since = [m \in Msgs |-> {}],
                              !.evict = [node |-> NULL, oldest |-> NULL]]
    /\ sup' = [sup EXCEPT !.pc = "ec_safe_free"]
    /\ UNCHANGED <<md, req, env, settings, serverHandler, sig, queue, queueMutex, conns, lruCache>>

\* empty_cache: safe_free(state->lruCache).
S_EcSafeFree ==
    /\ sup.pc = "ec_safe_free"
    /\ cache' = [cache EXCEPT !.alloc = FALSE]
    /\ lruCache' = NULL
    /\ sup' = [sup EXCEPT !.pc = "ec_init"]
    /\ UNCHANGED <<md, req, env, settings, serverHandler, sig, queue, queueMutex, conns, wk, ghost>>

\* S_EcInit that puts the released object back in place of a new one.
EcInitReusesOld ==
    /\ sup.pc = "ec_init"
    /\ cache' = [cache EXCEPT !.id = cache.id + 1, !.alloc = TRUE]
    /\ lruCache' = cache.id + 1
    /\ ghost' = [ghost EXCEPT !.out = Append(@, "Done!")]
    /\ sup' = [sup EXCEPT !.pc = "accept"]
    /\ UNCHANGED <<md, req, env, settings, serverHandler, sig, queue, queueMutex, conns, wk>>

\* empty_cache: state->lruCache = lru_cache_init(cacheSize); printf("Done!\n").
S_EcInit ==
    /\ sup.pc = "ec_init"
    /\ cache' = lru_cache_init(cache.id + 1, settings.cacheSize)
    /\ lruCache' = cache.id + 1
    /\ ghost' = [ghost EXCEPT !.out = Append(@, "Done!")]
    /\ sup' = [sup EXCEPT !.pc = "accept"]
    /\ UNCHANGED <<md, req, env, settings, serverHandler, sig, queue, queueMutex, conns, wk>>

\* start_server: connection = accept(...).  A failure (time-out, EINTR) stores
\* SOCKETERR and continues the loop; a success stores the new descriptor.
S_Accept ==
    /\ sup.pc = "accept"
    /\ \/ /\ sup' = [sup EXCEPT !.connection = SOCKETERR, !.pc = "loop"]
          /\ conns' = conns
       \/ /\ \E c \in 1 .. env.conns : conns[c].st = "none"
          /\ LET fd == Min({c \in 1 .. env.conns : conns[c].st = "none"})
             IN /\ conns' = [conns EXCEPT ![fd].st = "open"]
                /\ sup' = [sup EXCEPT !.connection = fd, !.pc = "push"]
    /\ UNCHANGED <<md, req, env, settings, serverHandler, sig, queue, queueMutex, wk, lruCache,
                   cache, ghost>>

\* linked_queue_push_ex(state->requestQueue, &connection): the node is
\* appended under condMutex and one waiting thread is signalled.
S_Push ==
    /\ sup.pc = "push"
    /\ queue.condMutex = 0
    /\ LET n == NewQNode(queue, AddrConnection)
           q == linked_queue_append_node(n.queue, n.node)
       IN /\ \/ /\ q.waiters = {}
                /\ queue' = q
             \/ \E w \in q.waiters : queue' = CondSignal(q, w)
          /\ ghost' = [ghost EXCEPT !.pushed = Append(@, sup.connection),
                                    !.entry[n.node] = sup.connection]
    /\ sup' = [sup EXCEPT !.pc = "loop"]
    /\ UNCHANGED <<md, req, env, settings, serverHandler, sig, queueMutex, conns, wk, lruCache, cache>>

\* teardown_server: pthread_cond_signal(&queue->available), once, condMutex not held.
S_TdSignal ==
    /\ sup.pc = "td_signal"
    /\ \/ /\ queue.waiters = {}
          /\ queue' = queue
       \/ \E w \in queue.waiters : queue' = CondSignal(queue, w)
    /\ sup' = [sup EXCEPT !.pc = "join"]
    /\ UNCHANGED <<md, req, env, settings, serverHandler, sig, queueMutex, conns, wk, lruCache,
                   cache, ghost>>

\* S_Join that waits for the first thread of the pool only.
JoinFirstOnly ==
    /\ sup.pc = "join"
    /\ wk[1].pc = "exit"
    /\ sup' = [sup EXCEPT !.pc = "dump"]
    /\ UNCHANGED <<md, req, env, settings, serverHandler, sig, queue, queueMutex, conns, wk,
                   lruCache, cache, ghost>>

\* teardown_server: the pthread_join loop returns once every worker has exited.
S_Join ==
    /\ sup.pc = "join"
    /\ \A w \in Workers : wk[w].pc = "exit"
    /\ sup' = [sup EXCEPT !.pc = "dump"]
    /\ UNCHANGED <<md, req, env, settings, serverHandler, sig, queue, queueMutex, conns, wk,
                   lruCache, cache, ghost>>

\* The lines printed by the loop of teardown_server that starts at node and
\* follows next n times (the request and the md5 of each node), and the node
\* it ends on.
RECURSIVE Walk(_, _, _)
Walk(pool, node, n) ==
    IF n = 0 THEN [lines |-> <<>>, head |-> node]
    ELSE LET rest == Walk(pool, pool[node].next, n - 1)
         IN [lines |-> <<[request |-> pool[node].request, md5 |-> pool[node].md5]>>
                          \o rest.lines,
             head |-> rest.head]

\* S_Dump starting at the node after the head.
DumpFromNext ==
    /\ sup.pc = "dump"
    /\ LET r == Walk(cache.cachePool, cache.cachePool[cache.head].next,
                     cache.currentCapacity)
       IN /\ cache' = [cache EXCEPT !.head = r.head]
          /\ ghost' = [ghost EXCEPT !.out = @ \o r.lines]
    /\ sup' = [sup EXCEPT !.pc = "free"]
    /\ UNCHANGED <<md, req, env, settings, serverHandler, sig, queue, queueMutex, conns, wk, lruCache>>

\* teardown_server: the cached elements are printed, head moving along next.
S_Dump ==
    /\ sup.pc = "dump"
    /\ LET r == Walk(cache.cachePool, cache.head, cache.currentCapacity)
       IN /\ cache' = [cache EXCEPT !.head = r.head]
          /\ ghost' = [ghost EXCEPT !.out = @ \o r.lines]
    /\ sup' = [sup EXCEPT !.pc = "free"]
    /\ UNCHANGED <<md, req, env, settings, serverHandler, sig, queue, queueMutex, conns, wk, lruCache>>

\* teardown_server: close(serverSocket), free_current_data, printf("Bye!\n").
S_Free ==
    /\ sup.pc = "free"
    /\ cache.mutex = 0
    /\ cache' = [lru_cache_free(cache) EXCEPT !.mutex = 0, !.alloc = FALSE]
    /\ lruCache' = NULL
    /\ ghost' = [ghost EXCEPT !.out = Append(@, BYE)]
    /\ sup' = [sup EXCEPT !.pc = "done"]
    /\ UNCHANGED <<md, req, env, settings, serverHandler, sig, queue, queueMutex, conns, wk>>

(* --------------------------- specifications ---------------------------- *)

\* The capacity of the cache in the runs that end with the dump.
DumpCapacity == 2

\* The threads of the pool and the capacity of the cache in the server runs.
ServerThreads == 2
ServerCapacity == 1

Init ==
    /\ InitWith(ServerCapacity, ServerThreads,
                [msgs |-> FirstMsgs(1), conns |-> MaxConn, usr1 |-> 0, term |-> MaxTerm])
    /\ req = NoRequest
    /\ md = NoDigest

Worker(w) ==
    \/ W_Loop(w) \/ W_LockQueue(w) \/ W_PopLock(w) \/ W_PopTry(w) \/ W_PopWait(w)
    \/ W_Wake(w) \/ W_Recv(w) \/ W_Drain(w) \/ W_ReadFail(w) \/ W_ReadClose(w)
    \/ W_Process(w)
    \/ W_Get(w) \/ W_GetRet(w) \/ W_Compute(w) \/ W_Put(w) \/ W_Send(w)

AcceptLoop == S_Loop \/ S_CheckUsr1 \/ S_Accept \/ S_Push

EmptyCache == S_EcRead \/ S_EcWrite \/ S_EcFree \/ S_EcSafeFree \/ S_EcInit

Teardown == S_TdSignal \/ S_Join \/ S_Dump \/ S_Free

Next ==
    \/ \E w \in Workers : Worker(w)
    \/ \E w \in Workers : Spurious(w)
    \/ AcceptLoop \/ Teardown
    \/ SigTerm \/ SigTermSet

\* The whole server: supervisor, signal handler and workers.
Spec == Init /\ [][Next]_vars

\* The cache under the workers' process_client_request alone, for every
\* capacity up to MaxCapacity and every pool of 2 .. MaxThreads threads, the
\* clients asking for MaxLoad - threadNumber different messages.
InitLru ==
    /\ \E cacheSize \in 1 .. MaxCapacity, threadNumber \in 2 .. MaxThreads :
          InitWith(cacheSize, threadNumber,
                   [msgs |-> FirstMsgs(MaxLoad - threadNumber), conns |-> 0,
                    usr1 |-> 0, term |-> 0])
    /\ req = NoRequest
    /\ md = NoDigest

NextLru ==
    \/ \E w \in Workers, k \in Msgs : L_Request(w, k)
    \/ \E w \in Workers : W_Get(w)
    \/ \E w \in Workers : W_GetRet(w)
    \/ \E w \in Workers : W_Compute(w)
    \/ \E w \in Workers : W_Put(w)
    \/ \E w \in Workers : W_Send(w)

SpecLru == InitLru /\ [][NextLru]_vars

\* The server without TERM/INT: the accept loop with SIGUSR1 and empty_cache.
InitReset ==
    /\ InitWith(ServerCapacity, ServerThreads,
                [msgs |-> FirstMsgs(1), conns |-> MaxConn, usr1 |-> MaxUsr1, term |-> 0])
    /\ req = NoRequest
    /\ md = NoDigest

NextReset ==
    \/ \E w \in Workers : Worker(w)
    \/ \E w \in Workers : Spurious(w)
    \/ AcceptLoop \/ EmptyCache
    \/ SigUsr1

SpecReset == InitReset /\ [][NextReset]_vars

\* The server up to the dump of teardown_server, with a cache of
\* DumpCapacity entries: no client is accepted, the workers are given the
\* parsed requests, any number of them, until SIGTERM.
InitDump ==
    /\ InitWith(DumpCapacity, ServerThreads,
                [msgs |-> FirstMsgs(DumpCapacity), conns |-> 0, usr1 |-> 0,
                 term |-> MaxTerm])
    /\ req = NoRequest
    /\ md = NoDigest

NextDump ==
    \/ \E w \in Workers : Worker(w)
    \/ \E w \in Workers : Spurious(w)
    \/ \E w \in Workers, k \in Msgs : L_Request(w, k)
    \/ S_Loop \/ S_CheckUsr1 \/ S_Accept
    \/ Teardown
    \/ SigTerm \/ SigTermSet

SpecDump == InitDump /\ [][NextDump]_vars

\* The cache under the workers' process_client_request and the supervisor's
\* empty_cache: a cache of ResetCapacity entries, no client is accepted, the
\* workers are given the parsed requests, SIGUSR1 comes at any moment.
ResetCapacity == 2

InitWipe ==
    /\ InitWith(ResetCapacity, ServerThreads,
                [msgs |-> FirstMsgs(ResetCapacity), conns |-> 0, usr1 |-> MaxUsr1,
                 term |-> 0])
    /\ req = NoRequest
    /\ md = NoDigest

NextWipe ==
    \/ \E w \in Workers, k \in Msgs : L_Request(w, k)
    \/ \E w \in Workers : W_Get(w)
    \/ \E w \in Workers : W_GetRet(w)
    \/ \E w \in Workers : W_Compute(w)
    \/ \E w \in Workers : W_Put(w)
    \/ \E w \in Workers : W_Send(w)
    \/ S_Loop \/ S_CheckUsr1 \/ S_Accept
    \/ EmptyCache
    \/ SigUsr1

SpecWipe == InitWipe /\ [][NextWipe]_vars

\* The latch under SIGUSR1 and SIGTERM together: one client, one worker.
InitLatch ==
    /\ InitWith(ServerCapacity, 1,
                [msgs |-> FirstMsgs(1), conns |-> 1, usr1 |-> MaxUsr1, term |-> MaxTerm])
    /\ req = NoRequest
    /\ md = NoDigest

NextLatch ==
    \/ \E w \in Workers : Worker(w)
    \/ \E w \in Workers : Spurious(w)
    \/ AcceptLoop \/ EmptyCache \/ Teardown
    \/ SigUsr1 \/ SigTerm \/ SigTermSet

SpecLatch == InitLatch /\ [][NextLatch]_vars

\* The server under a fair scheduler: every thread that can take a step
\* eventually takes one, and a signal handler that has started finishes.
\* accept and recv time out, so the supervisor and the workers never stay
\* blocked in them; no signal and no spurious wake-up is ever promised.
Fairness ==
    /\ \A w \in 1 .. ServerThreads : WF_vars(Worker(w))
    /\ WF_vars(AcceptLoop \/ Teardown)
    /\ WF_vars(SigTermSet)

SpecFair == Init /\ [][Next]_vars /\ Fairness

\* tokenize_request alone, called once on each of the buffers.
InitParse ==
    /\ InitWith(ServerCapacity, ServerThreads,
                [msgs |-> {}, conns |-> 0, usr1 |-> 0, term |-> 0])
    /\ \E b \in Buffers : req = [NoRequest EXCEPT !.pc = "call", !.buffer = b]
    /\ md = NoDigest

NextParse == P_Tokenize

SpecParse == InitParse /\ [][NextParse]_vars

\* md5String alone, called once on each of the inputs: every string of up to
\* MaxInputLen of the letters a, b, c, the longer strings that fill one block
\* of 64 bytes up to and past its padding, each with the context left on the
\* stack holding zeros or ones.
MaxInputLen == 3

RECURSIVE Strings(_)
Strings(n) ==
    IF n = 0 THEN {<<>>}
    ELSE LET shorter == Strings(n - 1)
         IN shorter \cup {Append(s, c) : s \in shorter, c \in {"a", "b", "c"}}

Repeat(c, n) == [i \in 1 .. n |-> c]

LongInputs ==
    {Repeat("a", n) : n \in {55, 56, 63, 64, 65}}
        \cup {Letters, <<"m", "e", "s", "s", "a", "g", "e", " ", "d", "i", "g", "e", "s", "t">>}

HashInputs == Strings(MaxInputLen) \cup LongInputs

InitHash ==
    /\ InitWith(ServerCapacity, ServerThreads,
                [msgs |-> {}, conns |-> 0, usr1 |-> 0, term |-> 0])
    /\ req = NoRequest
    /\ \E input \in HashInputs, garbage \in {0, 255} :
          md = [NoDigest EXCEPT !.pc = "call", !.input = input, !.garbage = garbage]

NextHash == H_Init \/ H_Update \/ H_Round \/ H_StepEnd \/ H_UpdateEnd \/ H_Return

SpecHash == InitHash /\ [][NextHash]_vars

(* ============================== properties ============================== *)

\* The program points of a worker between read_client_request reading
\* *connection and the end of the request.
AfterRecv ==
    {"drain", "read_fail", "fail_close", "process", "get", "get_ret", "compute", "put",
     "send"}

\* The program points of a worker inside process_client_request.
InProcess == {"get", "get_ret", "compute", "put", "send"}

\* The program points of a worker inside linked_queue_pop_ex.
InPop == {"pop_lock", "pop_try", "pop_wait", "waiting"}

\* s is a prefix of t.
IsPrefix(s, t) == Len(s) <= Len(t) /\ \A i \in 1 .. Len(s) : s[i] = t[i]

\* The pool slot holding message k, or NULL.
Cached(k) == lru_find_element(cache.cachePool, k, cache.currentCapacity)

\* The pool slots met from the head along next, currentCapacity of them.
RECURSIVE Ring(_, _, _)
Ring(pool, node, n) ==
    IF n = 0 THEN <<>> ELSE <<node>> \o Ring(pool, pool[node].next, n - 1)

\* C1: connection handles are never shared.  The descriptor a worker reads
\* from, replies to and closes is the one accepted for the queue entry it
\* popped, and no accepted connection is used by two workers.
ConnectionNeverShared ==
    /\ \A w \in Workers :
          /\ wk[w].pc \in AfterRecv /\ wk[w].entry # NULL
                => wk[w].recvSocket = wk[w].entry
          /\ wk[w].pc \in InProcess /\ wk[w].entry # NULL
                => wk[w].connection = wk[w].entry
    /\ \A c \in Fds : Cardinality(conns[c].users) <= 1

\* C2: shutdown liveness.  Once SERVER_SIGTERM is set and teardown_server has
\* done its wake-up, a worker inside linked_queue_pop_ex on an empty queue
\* eventually returns from it with NULL.
ShutdownLiveness ==
    \A w \in 1 .. ServerThreads :
        (/\ SERVER_SIGTERM \in serverHandler
         /\ sup.pc \in {"join", "dump", "free", "done"}
         /\ queue.first = NULL
         /\ wk[w].pc \in InPop)
        ~> (wk[w].pc = "read" /\ wk[w].clientSocket = NULL)

\* C3: graceful shutdown terminates.  Once a TERM or INT signal is delivered
\* the supervisor leaves the accept loop, every worker exits, the joins
\* return, the cache is dumped and the process reaches "Bye!".
GracefulShutdownTerminates ==
    (sig.term > 0) ~> (sup.pc = "done" /\ \A w \in 1 .. ServerThreads : wk[w].pc = "exit")

\* C4: the reset of the cache is atomic for the workers.  A worker about to
\* run get or put holds a pointer to the allocated cache object, with its
\* pool and its configured capacity, and no get or put has run on a NULL
\* pointer, a released cache object or released nodes.
ResetAtomic ==
    /\ \A w \in Workers :
          wk[w].pc \in {"get", "put"}
              => /\ LiveCache(wk[w].cache)
                 /\ cache.totalCapacity = settings.cacheSize
                 /\ DOMAIN cache.cachePool = 0 .. settings.cacheSize - 1
    /\ ghost.released \cap {"null", "cache", "node"} = {}

\* C5: a digest handed to a worker stays valid until it is sent.  A worker
\* about to send holds a digest string that has not been released, and it is
\* the digest of the message the worker was asked for.
DigestValidUntilSent ==
    \A w \in Workers :
        wk[w].pc = "send" => ~wk[w].md5.freed /\ wk[w].md5.of = wk[w].msg

\* C6: cache bound.  The count of used entries of a cache of capacity N
\* stays between 0 and N.
CacheBound ==
    /\ 0 <= cache.currentCapacity
    /\ cache.currentCapacity <= settings.cacheSize
    /\ cache.totalCapacity = settings.cacheSize

\* A put has overwritten an entry of a full cache.
CacheBoundWitness ==
    /\ cache.currentCapacity = settings.cacheSize
    /\ ghost.evict.node # NULL
    /\ settings.cacheSize = MaxCapacity

\* C7: LRU order.  After N + 1 puts of distinct messages on an empty cache of
\* capacity N the first message is absent and the N others are present; a put
\* on a full cache overwrites the entry whose last use is the oldest, and the
\* ring from the head along next is the entries in the order of last use.
LruOrder ==
    /\ (ghost.pure /\ Len(ghost.putSeq) = settings.cacheSize + 1)
          => /\ Cached(ghost.putSeq[1]) = NULL
             /\ \A i \in 2 .. settings.cacheSize + 1 : Cached(ghost.putSeq[i]) # NULL
    /\ ghost.evict.node = ghost.evict.oldest
    /\ Ring(cache.cachePool, cache.head, cache.currentCapacity) = ghost.lruOrder

\* N + 1 distinct messages were put on an empty cache of capacity N >= 2.
LruOrderWitness ==
    /\ ghost.pure
    /\ Len(ghost.putSeq) = settings.cacheSize + 1
    /\ settings.cacheSize >= 2
    /\ ghost.evict.node # NULL

\* C8: MRU on hit.  The entry last found or written is the head of the ring,
\* and a message found by a get stays in the cache until N - 1 other
\* messages have been found or put.
MruOnHit ==
    /\ ghost.lruOrder # <<>> => cache.head = ghost.lruOrder[1]
    /\ \A k \in ghost.hit : Cached(k) # NULL

NoLeakNoDoubleClose ==
    /\ \A c \in Fds : conns[c].closes <= 1
    /\ sup.pc = "done" => \A c \in Fds : conns[c].st # "open"

\* The line a client sends for message m and delay d.
RequestLine(m, d) == <<"g", "e", "t", " ">> \o m \o <<" ">> \o decimal(d)

\* The words of a line: its longest runs of characters other than the space.
RECURSIVE Words(_)
Words(s) ==
    IF s = <<>> THEN <<>>
    ELSE IF Head(s) = " " THEN Words(Tail(s))
    ELSE LET ends == {i \in 1 .. Len(s) : s[i] = " "}
             n == IF ends = {} THEN Len(s) + 1 ELSE Min(ends)
         IN <<SubSeq(s, 1, n - 1)>> \o Words(SubSeq(s, n, Len(s)))

AllDigits(t) == t # <<>> /\ \A i \in 1 .. Len(t) : IsDigit(t[i])

SpaceCount(s) == Cardinality({i \in 1 .. Len(s) : s[i] = " "})

\* C17: parser round trip.  For a message m without spaces and a delay d,
\* parsing "get " + m + " " + decimal(d) succeeds and yields m and d.
ParserRoundTrip ==
    \A m \in MsgTokens \ {<<>>}, d \in 0 .. MaxDelay :
        (req.pc = "returned" /\ req.buffer = RequestLine(m, d))
            => /\ req.ret = SUCCESS
               /\ req.request = [msg |-> m, mseconds |-> d]

\* tokenize_request has returned for a line with a delay of two digits.
ParserRoundTripWitness ==
    /\ req.pc = "returned"
    /\ req.buffer = RequestLine(<<"a", "b">>, MaxDelay)
    /\ MaxDelay >= 10
    /\ req.ret = SUCCESS

\* C18: the parser rejects every request whose third token is not made of
\* digits only (non-numeric, trailing characters, trailing newline).
RejectsBadDelay ==
    (/\ req.pc = "returned"
     /\ Len(Words(req.buffer)) >= 3
     /\ ~AllDigits(Words(req.buffer)[3]))
        => req.ret = ERROR

\* C19: the parser rejects every line that does not start with "get " or
\* that does not hold exactly two spaces.
RejectsBadShape ==
    (/\ req.pc = "returned"
     /\ \/ Len(req.buffer) < 4
        \/ SubSeq(req.buffer, 1, 4) # <<"g", "e", "t", " ">>
        \/ SpaceCount(req.buffer) # 2)
        => req.ret = ERROR

\* C20: the requests of the live entries of the cache are all different.
DistinctRequests ==
    \A i, j \in 0 .. cache.currentCapacity - 1 :
        i # j => cache.cachePool[i].request # cache.cachePool[j].request

\* C11: a cache hit does not re-pay the cost.  The hash is computed only
\* after get has returned nothing, put is called only after the hash with the
\* digest just computed, and a worker that got a digest from get is at the
\* reply with that digest.
HitSkipsCompute ==
    \A w \in Workers :
        /\ wk[w].pc = "compute" => wk[w].res = "miss" /\ wk[w].md5 = NoMd5
        /\ wk[w].pc = "put" => wk[w].res = "miss" /\ wk[w].md5 = md5String(wk[w].msg)
        /\ wk[w].pc = "send" /\ wk[w].res = "miss" => wk[w].md5.of = wk[w].msg
        /\ wk[w].pc = "send" /\ wk[w].res = "hit" => wk[w].md5.of # NullStr
        /\ wk[w].pc = "send" => wk[w].res \in {"hit", "miss"}

\* A worker is at the reply after a hit.
HitSkipsComputeWitness ==
    \E w \in Workers : wk[w].pc = "send" /\ wk[w].res = "hit"

\* C12: error outcomes map to fixed replies.  After a failed read the reply
\* is "Timeout." for a time-out, "Request is too long." for more than 4096
\* bytes, "Request is not valid." for a parser rejection and none for another
\* error; the worker then closes the connection and is back at its loop.
ErrorReplies ==
    /\ [](\A w \in Workers :
            wk[w].pc = "fail_close" =>
                /\ wk[w].res \in {"timeout", "toolong", "invalid", "error"}
                /\ wk[w].res = "timeout" => wk[w].reply = "Timeout.\n"
                /\ wk[w].res = "toolong" => wk[w].reply = "Request is too long.\n"
                /\ wk[w].res = "invalid" => wk[w].reply = "Request is not valid.\n"
                /\ wk[w].res = "error" => wk[w].reply = NullStr)
    /\ [][\A w \in Workers :
            (wk[w].pc = "fail_close" /\ wk'[w] # wk[w]) =>
                /\ wk'[w].pc = "loop"
                /\ LET fd == wk[w].recvSocket
                   IN fd \in Fds /\ conns[fd].st # "none" => conns'[fd].st = "closed"]_vars

\* A worker has sent the reply for a request that was too long.
ErrorRepliesWitness ==
    \E w \in Workers :
        wk[w].pc = "fail_close" /\ wk[w].res = "toolong" /\ wk[w].recvSocket \in Fds

\* C13: a request that fails in the read or the parse leaves the cache
\* unchanged and leads to no get and no put: the worker's steps from the
\* failure to its loop change neither the cache nor its order of use.
FailedReadLeavesCache ==
    [][\A w \in Workers :
          /\ wk[w].pc \in {"drain", "read_fail", "fail_close"}
                => wk'[w].pc \in {"drain", "read_fail", "fail_close", "loop"}
          /\ (wk'[w] # wk[w] /\ \/ wk[w].pc \in {"drain", "read_fail", "fail_close"}
                                \/ wk'[w].pc \in {"drain", "read_fail"})
                => /\ cache' = cache
                   /\ lruCache' = lruCache
                   /\ ghost'.lruOrder = ghost.lruOrder]_vars

\* A worker handles a failed read while the cache holds an entry.
FailedReadLeavesCacheWitness ==
    \E w \in Workers : wk[w].pc = "fail_close" /\ cache.currentCapacity > 0

\* C14: TERM is terminal for the latch.  Once the handler has run for TERM or
\* INT, SERVER_ENABLED is cleared and SERVER_SIGTERM is set in every state.
TermIsTerminal ==
    (sig.term > 0 /\ sig.pc = "idle")
        => /\ SERVER_ENABLED \notin serverHandler
           /\ SERVER_SIGTERM \in serverHandler

\* C15: USR1 is handled before further connections.  While SERVER_SIGUSR1 is
\* set the supervisor accepts no connection: it first clears the bit and
\* resets the cache.
Usr1BeforeAccept ==
    [][(SERVER_SIGUSR1 \in serverHandler /\ sup.pc = "accept")
          => sup'.pc # "push"]_vars

\* C16: the dump of teardown_server prints one line per entry of the cache,
\* from the most recently used to the least recently used, and "Bye!" after
\* the last of them.
DumpOrder ==
    /\ sup.pc = "free"
          => /\ Len(ghost.out) = cache.currentCapacity
             /\ ghost.out =
                   [i \in 1 .. Len(ghost.lruOrder) |->
                       [request |-> cache.cachePool[ghost.lruOrder[i]].request,
                        md5 |-> cache.cachePool[ghost.lruOrder[i]].md5]]
    /\ sup.pc = "done"
          => /\ Len(ghost.out) = Len(ghost.lruOrder) + 1
             /\ ghost.out[Len(ghost.out)] = "Bye!\n"

\* The server has finished after dumping a full cache whose first entry was
\* found again by a get after the second was put.
DumpOrderWitness ==
    /\ sup.pc = "done"
    /\ ghost.lruOrder = <<0, 1>>
    /\ Len(ghost.out) = DumpCapacity + 1

\* The string of the characters of a sequence of hexadecimal digits.
HexDigits == {hex[i] : i \in 1 .. Len(hex)}

\* C21: the hash is bit-exact MD5 in 32 lowercase hexadecimal characters:
\* md5String returns d41d8cd98f00b204e9800998ecf8427e for the empty string,
\* 0cc175b9c0f1b6a831c399e269772661 for "a" and
\* 900150983cd24fb0d6963f7d28e17f72 for "abc".
HashVectors ==
    md.pc = "returned"
        => /\ Len(md.result) = 32
           /\ \A n \in 1 .. 32 : md.result[n] \in HexDigits
           /\ md.input = <<>>
                 => md.result = <<"d", "4", "1", "d", "8", "c", "d", "9",
                                  "8", "f", "0", "0", "b", "2", "0", "4",
                                  "e", "9", "8", "0", "0", "9", "9", "8",
                                  "e", "c", "f", "8", "4", "2", "7", "e">>
           /\ md.input = <<"a">>
                 => md.result = <<"0", "c", "c", "1", "7", "5", "b", "9",
                                  "c", "0", "f", "1", "b", "6", "a", "8",
                                  "3", "1", "c", "3", "9", "9", "e", "2",
                                  "6", "9", "7", "7", "2", "6", "6", "1">>
           /\ md.input = <<"a", "b", "c">>
                 => md.result = <<"9", "0", "0", "1", "5", "0", "9", "8",
                                  "3", "c", "d", "2", "4", "f", "b", "0",
                                  "d", "6", "9", "6", "3", "f", "7", "d",
                                  "2", "8", "e", "1", "7", "f", "7", "2">>

\* md5String has returned for "abc" called with a stack that held ones.
HashVectorsWitness ==
    md.pc = "returned" /\ md.input = <<"a", "b", "c">> /\ md.garbage = 255

\* C22 as the spec states it: for each of the 16 bytes of the digest in
\* order, the character of the low four bits is written first and the
\* character of the high four bits second.
HexLowNibbleFirst ==
    md.pc = "returned"
        => \A i \in 0 .. 15 :
              /\ md.result[(2 * i) + 1] = hex[(md.ctx.digest[i] % 16) + 1]
              /\ md.result[(2 * i) + 2] = hex[(md.ctx.digest[i] \div 16) + 1]

\* C22 amended: for each of the 16 bytes of the digest in order, the
\* character of the high four bits is written first and the character of the
\* low four bits second, from the alphabet 0123456789abcdef.
HexHighNibbleFirst ==
    md.pc = "returned"
        => /\ hex = <<"0", "1", "2", "3", "4", "5", "6", "7",
                      "8", "9", "a", "b", "c", "d", "e", "f">>
           /\ Len(md.result) = 32
           /\ \A i \in 0 .. 15 :
                 /\ md.result[(2 * i) + 1] = hex[(md.ctx.digest[i] \div 16) + 1]
                 /\ md.result[(2 * i) + 2] = hex[(md.ctx.digest[i] % 16) + 1]

\* md5String has returned a digest whose first byte has two different halves.
HexHighNibbleFirstWitness ==
    /\ md.pc = "returned"
    /\ md.input = <<"a">>
    /\ md.ctx.digest[0] \div 16 # md.ctx.digest[0] % 16

\* The live nodes of the cache: the pool slots that hold a request.
LiveNodes == {i \in DOMAIN cache.cachePool : cache.cachePool[i].request # NullStr}

\* C23: the recency ring is well formed.  Whenever entries are used, prev is
\* the inverse of next on the live nodes, the walk from head along next for
\* currentCapacity steps meets every live node once and ends on the node
\* before head, head is the entry used last and head->prev the entry whose
\* last use is the oldest, and currentCapacity is the number of live nodes.
RingWellFormed ==
    cache.currentCapacity > 0
        => LET pool == cache.cachePool
               ring == Ring(pool, cache.head, cache.currentCapacity)
           IN /\ \A i \in LiveNodes :
                    /\ pool[i].next \in LiveNodes /\ pool[i].prev \in LiveNodes
                    /\ pool[pool[i].next].prev = i
                    /\ pool[pool[i].prev].next = i
              /\ {ring[n] : n \in 1 .. Len(ring)} = LiveNodes
              /\ \A m, n \in 1 .. Len(ring) : m # n => ring[m] # ring[n]
              /\ pool[ring[Len(ring)]].next = cache.head
              /\ cache.head = ghost.lruOrder[1]
              /\ pool[cache.head].prev = ghost.lruOrder[Len(ghost.lruOrder)]
              /\ Cardinality(LiveNodes) = cache.currentCapacity

\* A full cache of MaxCapacity entries whose first entry was found by a get
\* after the others were put.
RingWellFormedWitness ==
    /\ cache.currentCapacity = MaxCapacity
    /\ MaxCapacity >= 3
    /\ ghost.lruOrder[1] = 0
    /\ ghost.lruOrder[2] = MaxCapacity - 1
    /\ ghost.evict.node = NULL

\* C24: a worker exits only as the result of linked_queue_pop_ex returning
\* NULL for the shutdown, which it does when the queue is empty and
\* SERVER_SIGTERM is set: a worker that has finished a request pops again
\* before it can exit, and no worker exits while the queue holds an
\* accepted connection.
ExitOnlyOnShutdown ==
    [][\A w \in Workers :
          (wk[w].pc # "exit" /\ wk'[w].pc = "exit")
              => /\ queue.first = NULL
                 /\ SERVER_SIGTERM \in serverHandler]_vars

\* C25: linked_queue_pop_ex returns a payload whenever the queue is not
\* empty, also with SERVER_SIGTERM set; it returns NULL only when the queue
\* is empty and SERVER_SIGTERM is set; with the queue empty and
\* SERVER_SIGTERM clear it does not return, whatever wakes the worker up.
PopBlocking ==
    [][\A w \in Workers :
          /\ (wk[w].pc \in InPop /\ wk'[w].pc \notin InPop)
                => /\ wk[w].pc = "pop_try"
                   /\ wk'[w].pc = "read"
                   /\ queue'.condMutex = 0
          /\ (wk[w].pc = "pop_try" /\ wk'[w] # wk[w])
                => /\ queue.first # NULL
                      => /\ wk'[w].pc = "read"
                         /\ wk'[w].clientSocket = queue.nodes[queue.first].data
                         /\ wk'[w].clientSocket # NULL
                         /\ queue'.elements = queue.elements - 1
                   /\ (wk'[w].pc = "read" /\ wk'[w].clientSocket = NULL)
                      => queue.first = NULL /\ SERVER_SIGTERM \in serverHandler
                   /\ (queue.first = NULL /\ SERVER_SIGTERM \notin serverHandler)
                      => wk'[w].pc = "pop_wait" /\ queue' = queue]_vars

\* A worker has returned from linked_queue_pop_ex with a payload, and another
\* is at the pop with SERVER_SIGTERM set and a connection in the queue.
PopBlockingWitness ==
    \E v, w \in Workers :
        /\ wk[v].pc = "read" /\ wk[v].clientSocket # NULL
        /\ wk[w].pc = "pop_try" /\ queue.first # NULL
        /\ SERVER_SIGTERM \in serverHandler

\* C26: teardown ordering.  The dump of the cache, the close of the server
\* socket and the release of the cache, the queue and the server state come
\* only after every worker has exited: the cache is still allocated during
\* the dump, and once teardown_server has released it no worker takes a
\* step and neither the queue nor the cache changes.
TeardownAfterJoin ==
    /\ [](sup.pc \in {"dump", "free", "done"} => \A w \in Workers : wk[w].pc = "exit")
    /\ [](sup.pc \in {"td_signal", "join", "dump", "free"}
             => cache.alloc /\ lruCache = cache.id)
    /\ [][sup.pc = "done" => wk' = wk /\ queue' = queue /\ cache' = cache]_vars

\* teardown_server has finished after a request was served and its entry
\* was dumped.
TeardownAfterJoinWitness ==
    /\ sup.pc = "done"
    /\ Len(ghost.popped) >= 1
    /\ Len(ghost.out) = 2
    /\ ~cache.alloc

\* The program points of a worker from read_client_request to the close of
\* the connection: the read and the parse, the hash and the sleep, the
\* reply and the close, also after a failed read.
OutsideLocks ==
    {"read", "drain", "read_fail", "fail_close", "process", "get", "get_ret", "compute",
     "put", "send"}

\* C27: no lock is held outside the queue and cache operations.  A worker
\* that reads, parses, computes, replies or closes holds neither
\* queueMutex nor the queue's condMutex nor the mutex of the cache, after a
\* successful read and after a failed one.
NoLockOutside ==
    \A w \in Workers :
        wk[w].pc \in OutsideLocks \cup {"loop", "exit"}
            => /\ queueMutex # w
               /\ queue.condMutex # w
               /\ cache.mutex # w

\* One worker is between the miss and the put, where it computes the hash
\* and sleeps, while the other closes a connection after a failed read.
NoLockOutsideWitness ==
    \E v, w \in Workers :
        /\ wk[v].pc = "put" /\ wk[v].res = "miss"
        /\ wk[w].pc = "fail_close"

\* empty_cache has printed "Done!".
ResetDone == \E i \in 1 .. Len(ghost.out) : ghost.out[i] = "Done!"

\* C28: after a completed reset the cache is in its initial state.  The step
\* that completes empty_cache leaves a cache with no entry used, the
\* configured capacity and no message found by a get; and the puts of
\* different messages that follow the reset, up to the capacity, each fill a
\* free entry and overwrite none.
ResetToInitial ==
    /\ [][(sup.pc = "ec_init" /\ sup'.pc = "accept")
             => /\ cache'.alloc /\ lruCache' = cache'.id
                /\ cache'.currentCapacity = 0
                /\ cache'.totalCapacity = settings.cacheSize
                /\ DOMAIN cache'.cachePool = 0 .. settings.cacheSize - 1
                /\ \A k \in Msgs :
                      lru_find_element(cache'.cachePool, k, cache'.currentCapacity) = NULL
                /\ \A i \in DOMAIN cache'.cachePool :
                      cache'.cachePool[i].request = NullStr]_vars
    /\ []((/\ ResetDone /\ sup.pc \in {"loop", "check_usr1", "accept"}
           /\ ghost.pure /\ Len(ghost.putSeq) <= settings.cacheSize)
             => /\ cache.currentCapacity = Len(ghost.putSeq)
                /\ cache.totalCapacity = settings.cacheSize
                /\ ghost.evict.node = NULL
                /\ \A i \in 1 .. Len(ghost.putSeq) : Cached(ghost.putSeq[i]) # NULL)

\* After a reset as many different messages as the capacity have been put,
\* and no released memory was touched.
ResetToInitialWitness ==
    /\ ResetDone
    /\ ghost.pure
    /\ Len(ghost.putSeq) = ResetCapacity
    /\ cache.currentCapacity = ResetCapacity
    /\ ghost.released = {}

\* C29: a put on a full cache changes only the content of the node before
\* the head and moves the head to it: the count of used entries stays the
\* capacity, no next and no prev changes, and every other entry keeps its
\* request, its digest and its place among the others in the order of use.
FullPutFrame ==
    [][\A w \in Workers :
          (/\ wk[w].pc = "put" /\ wk'[w].pc = "send"
           /\ cache.currentCapacity = cache.totalCapacity
           /\ cache.totalCapacity > 0)
              => LET pool == cache.cachePool
                     lru == pool[cache.head].prev
                     n == cache.currentCapacity
                 IN /\ cache'.currentCapacity = n
                    /\ cache'.totalCapacity = n
                    /\ cache'.head = lru
                    /\ cache'.cachePool[lru].request = wk[w].msg
                    /\ cache'.cachePool[lru].md5 = wk[w].md5.of
                    /\ \A i \in DOMAIN pool :
                          /\ cache'.cachePool[i].next = pool[i].next
                          /\ cache'.cachePool[i].prev = pool[i].prev
                          /\ i # lru => cache'.cachePool[i] = pool[i]
                    /\ SeqRemove(Ring(cache'.cachePool, cache'.head, n), lru)
                          = SeqRemove(Ring(pool, cache.head, n), lru)]_vars

\* A worker has put a message into a full cache of two or more entries and
\* is about to reply.
FullPutFrameWitness ==
    \E w \in Workers :
        /\ wk[w].pc = "send" /\ wk[w].res = "miss"
        /\ settings.cacheSize >= 2
        /\ ghost.evict.node # NULL
        /\ wk[w].md5.at = ghost.evict.node
        /\ cache.head = ghost.evict.node
        /\ cache.cachePool[cache.head].request = wk[w].msg

\* C30: worker progress.  A worker that has popped a connection eventually
\* closes it and is back at its loop, whatever the client does (it sends
\* nothing, it keeps sending after a first read of more than 4096 bytes, it
\* closes early) and whatever the delay.
WorkerProgress ==
    \A w \in 1 .. ServerThreads :
        (wk[w].pc = "read" /\ wk[w].clientSocket # NULL) ~> (wk[w].pc = "loop")

\* A worker that is blocked in pthread_mutex_lock: on queueMutex in
\* request_monitor, on condMutex in linked_queue_pop_ex (at the lock or coming
\* back from pthread_cond_wait), on the mutex of the cache.
WorkerBlocked(w) ==
    \/ wk[w].pc = "lock_queue" /\ queueMutex # 0
    \/ wk[w].pc = "pop_lock" /\ queue.condMutex # 0
    \/ wk[w].pc = "waiting" /\ w \notin queue.waiters /\ queue.condMutex # 0
    \/ wk[w].pc \in {"get", "put"} /\ cache.mutex # 0

\* The supervisor blocked in pthread_mutex_lock: on condMutex in
\* linked_queue_push_ex, on the mutex of the cache in lru_cache_free.
SupBlocked ==
    \/ sup.pc = "push" /\ queue.condMutex # 0
    \/ sup.pc \in {"ec_free", "free"} /\ cache.mutex # 0

\* C31: a push never blocks for good and no mutex deadlock exists.  Whenever
\* the supervisor is in linked_queue_push_ex, either the push can be done at
\* once, or condMutex is held by a worker that is inside linked_queue_pop_ex
\* before its wait and can take its next step (which unlocks condMutex or
\* leads to the wait that unlocks it); a worker waiting on the condition does
\* not hold condMutex.  No state has every thread blocked on a mutex, and a
\* worker holds condMutex only inside queueMutex (one order of locking).
PushNeverBlocks ==
    /\ (sup.pc = "push" /\ Running)
          => \/ ENABLED S_Push
             \/ \E w \in Workers : /\ queue.condMutex = w
                                   /\ wk[w].pc \in {"pop_try", "pop_wait"}
                                   /\ ENABLED Worker(w)
    /\ \A w \in Workers : wk[w].pc = "waiting" => queue.condMutex # w
    /\ \A w \in Workers : queue.condMutex = w => queueMutex = w
    /\ ~(SupBlocked /\ \A w \in Workers : WorkerBlocked(w))

\* A push has been done while one worker was waiting inside
\* linked_queue_pop_ex, which the push has signalled, and the other worker
\* is blocked on queueMutex.
PushNeverBlocksWitness ==
    /\ Len(ghost.pushed) > 0 /\ queue.first # NULL
    /\ \E w \in Workers :
          /\ wk[w].pc = "waiting" /\ w \notin queue.waiters /\ queueMutex = w
          /\ \E v \in Workers \ {w} : WorkerBlocked(v)

\* The nodes of the queue from node along next, at most n of them.
RECURSIVE Chain(_, _, _)
Chain(q, node, n) ==
    IF node = NULL \/ n = 0 THEN <<>>
    ELSE <<node>> \o Chain(q, q.nodes[node].next, n - 1)

\* C32: the count of the queue.  Whenever condMutex is free (no thread is
\* inside linked_queue_push_ex or linked_queue_pop_ex), elements is the
\* number of nodes reached from first along next, first and last are NULL
\* exactly when elements is 0, and last is the node the chain ends on.
QueueCount ==
    queue.condMutex = 0 =>
        LET chain == Chain(queue, queue.first, Cardinality(QNodes) + 1)
        IN /\ queue.elements = Len(chain)
           /\ (queue.first = NULL) = (queue.elements = 0)
           /\ (queue.last = NULL) = (queue.elements = 0)
           /\ queue.elements > 0 => /\ chain[Len(chain)] = queue.last
                                    /\ queue.nodes[queue.last].next = NULL
           /\ \A i \in 1 .. Len(chain) : queue.nodes[chain[i]].alloc

\* A worker has popped the first of two connections pushed and the queue
\* holds the second one.
QueueCountWitness ==
    /\ queue.condMutex = 0
    /\ Len(ghost.pushed) = 2 /\ Len(ghost.popped) = 1
    /\ queue.elements = 1 /\ queue.first # NULL

\* C33: the reply goes to the requester.  While a worker is in
\* process_client_request, the descriptor it sends the digest on and closes
\* is the descriptor it read the request from, whatever the supervisor has
\* accepted since.
ReplyToRequester ==
    \A w \in Workers :
        wk[w].pc \in InProcess => wk[w].connection = wk[w].recvSocket

\* C34: the cache is transparent.  Every live entry of the cache holds the
\* digest of its own request, and the digest a worker sends for a valid
\* request is the digest of the message asked for, read from memory that has
\* not been released, after a hit as after a miss.
CacheTransparent ==
    /\ cache.alloc =>
          \A i \in 0 .. cache.currentCapacity - 1 :
              cache.cachePool[i].md5 = cache.cachePool[i].request
    /\ \A w \in Workers :
          wk[w].pc = "send" /\ wk[w].res \in {"hit", "miss"}
              => wk[w].md5 = [md5String(wk[w].msg) EXCEPT !.at = wk[w].md5.at]

\* C35: the linear scan is complete.  The pool slots that hold a request are
\* exactly the slots 0 .. currentCapacity - 1; a get returns nothing only
\* when no slot holds the request asked for; and the digest a get returns
\* is the digest of an entry whose request is the one asked for.
ScanComplete ==
    [][/\ cache.alloc =>
             \A i \in DOMAIN cache.cachePool :
                 (cache.cachePool[i].request # NullStr) = (i < cache.currentCapacity)
       /\ \A w \in Workers :
             /\ (wk[w].pc = "get" /\ wk'[w].pc = "compute" /\ LiveCache(wk[w].cache))
                   => \A i \in DOMAIN cache.cachePool :
                          cache.cachePool[i].request # wk[w].msg
             /\ (wk[w].pc = "get_ret" /\ wk'[w].pc = "send")
                   => /\ wk'[w].md5.of = wk[w].msg
                      /\ cache.cachePool[wk'[w].md5.at].request = wk[w].msg]_vars

\* C36: at most one worker at a time is inside linked_queue_pop_ex.  The
\* worker inside it holds queueMutex, at most one worker waits on the
\* condition of the queue, and every other worker that wants to pop is
\* stopped at the lock of queueMutex.
OnePopper ==
    /\ Cardinality({w \in Workers : wk[w].pc \in InPop}) <= 1
    /\ Cardinality(queue.waiters) <= 1
    /\ \A w \in Workers :
          /\ wk[w].pc \in InPop => queueMutex = w
          /\ w \in queue.waiters => wk[w].pc = "waiting"
          /\ wk[w].pc \in InPop
                => \A v \in Workers \ {w} :
                      wk[v].pc = "lock_queue" => ~ENABLED W_LockQueue(v)

\* One worker waits on the condition of the empty queue and the other one is
\* stopped at the lock of queueMutex.
OnePopperWitness ==
    \E w \in Workers :
        /\ wk[w].pc = "waiting" /\ w \in queue.waiters /\ queue.first = NULL
        /\ \E v \in Workers \ {w} : wk[v].pc = "lock_queue"

====
